---- MODULE Spec2Model ----
(***************************************************************************)
(* A model of the connection state machine of libcno (src/cno/core.c):     *)
(* the stream table, the frame writer and its splitter, the HTTP/2 frame   *)
(* handlers, the HTTP/1 states and the writer API.                         *)
(*                                                                         *)
(* The C functions are translated as operators over a record m:            *)
(*   m.c    the struct cno_connection_t                                    *)
(*   m.cbs  the callbacks fired so far in the running API call             *)
(*   m.out  what was handed to on_writev so far in the running API call    *)
(*   m.ret  "OK" or the error the running function returned                *)
(*   m.nx   the tri-state result of a state handler ("WAIT" or a state)    *)
(*   m.n    the byte count cno_write_data returns                          *)
(*   m.fail the callback of the embedder that returns non-zero in this     *)
(*          call ("none" when every callback succeeds)                     *)
(* An action is one API call: it runs the translated function on the       *)
(* current connection and stores the resulting record in the variables.    *)
(*                                                                         *)
(* Numbers that do not fit TLC's 32-bit integers (uint32_t settings and    *)
(* increments, int64_t windows) are pairs <<hi, lo>> that stand for        *)
(* hi * 2^16 + lo with 0 <= lo < 2^16; their arithmetic is exact.          *)
(* uint64_t payload counters are kept as their signed residue, so that     *)
(* (uint64_t) -1 is -1 and (uint64_t) -2 is -2.                            *)
(***************************************************************************)
EXTENDS Integers, Sequences, FiniteSets, TLC

VARIABLES conn, cbs, out, ret, call, hist

vars == <<conn, cbs, out, ret, call, hist>>

RECURSIVE Call(_, _)

----------------------------------------------------------------------------
(* Exact arithmetic on <<hi, lo>> pairs.                                   *)

Wide(n) == <<n \div 65536, n % 65536>>

wAdd(a, b) == LET s == a[2] + b[2] IN <<a[1] + b[1] + (s \div 65536), s % 65536>>

wNeg(a) == IF a[2] = 0 THEN <<0 - a[1], 0>> ELSE <<0 - a[1] - 1, 65536 - a[2]>>

wSub(a, b) == wAdd(a, wNeg(b))

wLt(a, b) == a[1] < b[1] \/ (a[1] = b[1] /\ a[2] < b[2])

wLe(a, b) == a = b \/ wLt(a, b)

wMin(a, b) == IF wLt(b, a) THEN b ELSE a

\* the value of a pair known to be small enough for TLC
Narrow(a) == a[1] * 65536 + a[2]

W0 == <<0, 0>>

\* 0x7FFFFFFF
INT31_MAX == <<32767, 65535>>

\* (uint32_t) -1
UINT32_MAX == <<65535, 65535>>

----------------------------------------------------------------------------
(* Enumerations and constants of core.h, as core.c uses them.              *)

CNO_REMOTE == 0
CNO_LOCAL == 1

CNO_STREAM_BUCKETS == 8
CNO_STREAM_RESET_HISTORY == 2
CNO_MAX_CONTINUATIONS == 3

\* flag bits; ACK and END_STREAM are the same bit (0x1)
CNO_FLAG_END_STREAM == "END_STREAM"
CNO_FLAG_ACK == CNO_FLAG_END_STREAM
CNO_FLAG_END_HEADERS == "END_HEADERS"
CNO_FLAG_PADDED == "PADDED"
CNO_FLAG_PRIORITY == "PRIORITY"

\* the frame types that have a handler, in the order of CNO_FRAME_HANDLERS
KnownFrameTypes ==
    <<"DATA", "HEADERS", "PRIORITY", "RST_STREAM", "SETTINGS", "PUSH_PROMISE",
      "PING", "GOAWAY", "WINDOW_UPDATE", "CONTINUATION">>

\* indices of struct cno_settings_t's array, written setting - 1 in the code
HEADER_TABLE_SIZE == 1
ENABLE_PUSH == 2
MAX_CONCURRENT_STREAMS == 3
INITIAL_WINDOW_SIZE == 4
MAX_FRAME_SIZE == 5
MAX_HEADER_LIST_SIZE == 6
CNO_SETTINGS_UNDEFINED == 7

CNO_SETTINGS_STANDARD ==
    <<Wide(4096), Wide(1), UINT32_MAX, Wide(65535), Wide(16384), UINT32_MAX>>

CNO_SETTINGS_CONSERVATIVE ==
    <<Wide(4096), Wide(0), Wide(100), Wide(65535), Wide(16384), UINT32_MAX>>

CNO_SETTINGS_INITIAL ==
    <<Wide(4096), Wide(1), Wide(1024), Wide(65535), Wide(16384), UINT32_MAX>>

\* sizeof CNO_PREFACE
CNO_PREFACE_SIZE == 24

----------------------------------------------------------------------------
(* The record threaded through the translated functions.                   *)

Ok(m) == m.ret = "OK"

\* CNO_ERROR(code, ...)
CNO_ERROR(m, code) == [m EXCEPT !.ret = code]

\* CNO_FIRE(conn, cb, ...): the callback is called, and its non-zero result
\* is the error of the caller
CNO_FIRE(m, cb, id, arg) ==
    [m EXCEPT !.cbs = Append(@, [cb |-> cb, id |-> id, arg |-> arg]),
              !.ret = IF m.fail = cb THEN "CALLBACK" ELSE @]

\* CNO_WRITEV(conn, ...): one on_writev call carrying one logical message
CNO_WRITEV(m, msg) ==
    [m EXCEPT !.out = Append(@, msg),
              !.ret = IF m.fail = "on_writev" THEN "CALLBACK" ELSE @]

\* an outgoing frame: payload.data is an offset into the caller's buffer
OutFrame(type, flags, stream, size, arg) ==
    [type |-> type, flags |-> flags, stream |-> stream, data |-> 0, size |-> size,
     arg |-> arg]

\* bytes written that are not an HTTP/2 frame (the preface, HTTP/1 text)
OutRaw(what, size, arg) ==
    [type |-> what, flags |-> {}, stream |-> 0, data |-> 0, size |-> size, arg |-> arg]

----------------------------------------------------------------------------
(* The stream table.                                                       *)

\* cno_stream_is_local, as the 0/1 the code uses to index its arrays
cno_stream_is_local(c, id) == IF id % 2 = (IF c.client THEN 1 ELSE 0) THEN 1 ELSE 0

Bucket(id) == id % CNO_STREAM_BUCKETS

\* the stream with this id in a bucket list, or the index 0 when there is none
RECURSIVE FindIn(_, _, _)
FindIn(list, id, i) ==
    IF i > Len(list) THEN 0
    ELSE IF list[i].id = id THEN i
    ELSE FindIn(list, id, i + 1)

HasStream(c, id) == FindIn(c.streams[Bucket(id)], id, 1) # 0

\* cno_stream_find; only used where HasStream holds
cno_stream_find(c, id) ==
    c.streams[Bucket(id)][FindIn(c.streams[Bucket(id)], id, 1)]

\* A struct cno_stream_t pointer is the id of a stream of the table, or DANGLING:
\* a pointer to a stream that was freed. Reading through a dangling pointer is
\* undefined; what it yields is m.ghost, which starts as the value m.ub drawn
\* for this call.
DANGLING == 0 - 1

\* a NULL struct cno_stream_t pointer (no stream has id 0)
NULL == 0 - 0

Deref(m, sp) == IF sp = DANGLING THEN m.ghost ELSE cno_stream_find(m.c, sp)

\* an assignment through a struct cno_stream_t pointer
SetStream(m, sp, s) ==
    IF sp = DANGLING THEN [m EXCEPT !.ghost = s]
    ELSE [m EXCEPT !.c.streams[Bucket(sp)][FindIn(m.c.streams[Bucket(sp)], sp, 1)] = s]

RemoveAt(list, i) == SubSeq(list, 1, i - 1) \o SubSeq(list, i + 1, Len(list))

\* the limit taken from the settings of the side that opens the stream
Mut_StreamLimit(c, local) ==
    IF c.mode = "h2" THEN c.settings[local][MAX_CONCURRENT_STREAMS] ELSE Wide(1)

\* the limit of cno_stream_new: the other side's max_concurrent_streams, 1 in h1
StreamLimit(c, local) ==
    IF c.mode = "h2" THEN c.settings[1 - local][MAX_CONCURRENT_STREAMS] ELSE Wide(1)

NewStream(id, local) ==
    [id |-> id,
     r_state |-> IF id % 2 = 1 \/ local = 0 THEN "HEADERS" ELSE "CLOSED",
     w_state |-> IF id % 2 = 1 \/ local = 1 THEN "HEADERS" ELSE "CLOSED",
     writing_chunked |-> FALSE,
     reading_head_response |-> FALSE,
     window_recv |-> W0,
     window_send |-> W0,
     remaining_payload |-> 0]

\* cno_stream_new without the test of the id's parity
Mut_cno_stream_new(m, id, local) ==
    IF id <= m.c.last_stream[local]
    THEN CNO_ERROR(m, IF local = 1 THEN "INVALID_STREAM" ELSE "PROTOCOL")
    ELSE IF wLe(StreamLimit(m.c, local), Wide(m.c.stream_count[local]))
    THEN CNO_ERROR(m, IF local = 1 THEN "WOULD_BLOCK" ELSE "PROTOCOL")
    ELSE LET m1 == [m EXCEPT !.c.last_stream[local] = id,
                             !.c.streams[Bucket(id)] = <<NewStream(id, local)>> \o @,
                             !.c.stream_count[local] = @ + 1]
             m2 == CNO_FIRE(m1, "on_stream_start", id, [local |-> local])
         IN  IF Ok(m2) THEN m2
             ELSE [m2 EXCEPT !.c.streams[Bucket(id)] = Tail(@),
                             !.c.stream_count[local] = @ - 1]

\* cno_stream_new: m.ret = "OK" iff the stream was created
cno_stream_new(m, id, local) ==
    IF cno_stream_is_local(m.c, id) # local
    THEN CNO_ERROR(m, IF local = 1 THEN "INVALID_STREAM" ELSE "PROTOCOL")
    ELSE IF id <= m.c.last_stream[local]
    THEN CNO_ERROR(m, IF local = 1 THEN "INVALID_STREAM" ELSE "PROTOCOL")
    ELSE IF wLe(StreamLimit(m.c, local), Wide(m.c.stream_count[local]))
    THEN CNO_ERROR(m, IF local = 1 THEN "WOULD_BLOCK" ELSE "PROTOCOL")
    ELSE LET m1 == [m EXCEPT !.c.last_stream[local] = id,
                             !.c.streams[Bucket(id)] = <<NewStream(id, local)>> \o @,
                             !.c.stream_count[local] = @ + 1]
             m2 == CNO_FIRE(m1, "on_stream_start", id, [local |-> local])
         IN  IF Ok(m2) THEN m2
             ELSE [m2 EXCEPT !.c.streams[Bucket(id)] = Tail(@),
                             !.c.stream_count[local] = @ - 1]

\* cno_stream_free without the decrement of stream_count
Mut_cno_stream_free(m, sp) ==
    IF sp = DANGLING THEN CNO_ERROR(m, "SIGSEGV")
    ELSE [m EXCEPT !.c.streams[Bucket(sp)] = RemoveAt(@, FindIn(@, sp, 1))]

\* cno_stream_free. The loop walks the bucket until it meets the pointer; a freed
\* stream is in no bucket, so the walk runs off the list's end and dereferences
\* NULL: the process dies.
cno_stream_free(m, sp) ==
    IF sp = DANGLING THEN CNO_ERROR(m, "SIGSEGV")
    ELSE [m EXCEPT !.c.streams[Bucket(sp)] = RemoveAt(@, FindIn(@, sp, 1)),
                   !.c.stream_count[cno_stream_is_local(m.c, sp)] = @ - 1]

\* cno_stream_end
cno_stream_end(m, sp) ==
    LET id == Deref(m, sp).id
        m1 == Call("cno_stream_free", <<m, sp>>)
    IN  IF m1.ret = "SIGSEGV" THEN m1 ELSE CNO_FIRE(m1, "on_stream_end", id, [ended |-> TRUE])

\* cno_stream_end_by_local: an entry of recently_reset is the id and the bit 31
\* that says the stream was still expecting HEADERS
cno_stream_end_by_local(m, sp) ==
    LET s == Deref(m, sp)
        m1 == IF s.r_state # "CLOSED"
              THEN [m EXCEPT !.c.recently_reset[m.c.recently_reset_next] =
                                 [id |-> s.id, is_headers |-> s.r_state = "HEADERS"],
                             !.c.recently_reset_next =
                                 (@ + 1) % CNO_STREAM_RESET_HISTORY]
              ELSE m
    IN  Call("cno_stream_end", <<m1, sp>>)

----------------------------------------------------------------------------
(* The frame writer.                                                       *)


\* the loop of cno_frame_write that forgets to give the carried flag back to the
\* last part
Mut_cno_frame_write_parts(m, part, length, limit, carry) ==
    IF length > limit
    THEN LET m1 == Call("cno_frame_write", <<m, part>>)
         IN  IF ~Ok(m1) THEN m1
             ELSE Call("cno_frame_write_parts", <<
                      m1,
                      [part EXCEPT !.type = IF @ # "DATA" THEN "CONTINUATION" ELSE @,
                                   !.flags = @ \ {CNO_FLAG_PRIORITY, CNO_FLAG_END_STREAM},
                                   !.data = @ + limit],
                      length - limit, limit, carry>>)
    ELSE Call("cno_frame_write", <<m, [part EXCEPT !.size = length]>>)

\* the for loop of cno_frame_write and the last part after it
cno_frame_write_parts(m, part, length, limit, carry) ==
    IF length > limit
    THEN LET m1 == Call("cno_frame_write", <<m, part>>)
         IN  IF ~Ok(m1) THEN m1
             ELSE Call("cno_frame_write_parts", <<
                      m1,
                      [part EXCEPT !.type = IF @ # "DATA" THEN "CONTINUATION" ELSE @,
                                   !.flags = @ \ {CNO_FLAG_PRIORITY, CNO_FLAG_END_STREAM},
                                   !.data = @ + limit],
                      length - limit, limit, carry>>)
    ELSE Call("cno_frame_write", <<m, [part EXCEPT !.flags = @ \cup carry, !.size = length]>>)

\* cno_frame_write without the comparison with the peer's limit
Mut_cno_frame_write(m, frame) == CNO_WRITEV(m, frame)

\* cno_frame_write; the limit is a valid max_frame_size, so it fits TLC
cno_frame_write(m, frame) ==
    LET length == frame.size
        limit == Narrow(m.c.settings[CNO_REMOTE][MAX_FRAME_SIZE])
    IN  IF length <= limit THEN CNO_WRITEV(m, frame)
        ELSE IF frame.type \notin {"HEADERS", "PUSH_PROMISE", "DATA"}
        THEN CNO_ERROR(m, "ASSERTION")
        ELSE IF CNO_FLAG_PADDED \in frame.flags
        THEN CNO_ERROR(m, "NOT_IMPLEMENTED")
        ELSE LET carry == frame.flags \cap
                              (IF frame.type = "DATA" THEN {CNO_FLAG_END_STREAM}
                                                      ELSE {CNO_FLAG_END_HEADERS})
             IN  Call("cno_frame_write_parts", <<
                     m, [frame EXCEPT !.size = limit, !.flags = @ \ carry],
                     length, limit, carry>>)

\* cno_frame_write_goaway with the frame packed before goaway_sent is recorded
Mut_cno_frame_write_goaway(m, code) ==
    LET m1 == IF m.c.goaway_sent = 0
              THEN [m EXCEPT !.c.goaway_sent = m.c.last_stream[CNO_REMOTE]]
              ELSE m
    IN  Call("cno_frame_write", <<m1, OutFrame("GOAWAY", {}, 0, 8,
                                     [last |-> m.c.goaway_sent, code |-> code])>>)

\* cno_frame_write_goaway
cno_frame_write_goaway(m, code) ==
    LET m1 == IF m.c.goaway_sent = 0
              THEN [m EXCEPT !.c.goaway_sent = m.c.last_stream[CNO_REMOTE]]
              ELSE m
    IN  Call("cno_frame_write", <<m1, OutFrame("GOAWAY", {}, 0, 8,
                                     [last |-> m1.c.goaway_sent, code |-> code])>>)

\* cno_frame_write_error: shut down, then a PROTOCOL error
cno_frame_write_error(m, code) ==
    LET m1 == Call("cno_frame_write_goaway", <<m, code>>)
    IN  IF ~Ok(m1) THEN m1 ELSE CNO_ERROR(m1, "PROTOCOL")

----------------------------------------------------------------------------
(* Inbound frames. A frame of the input is its 9-octet header (type, flags, *)
(* stream, len) and what its payload holds: pad is the pad-length octet,    *)
(* dep the stream dependency of the priority block, promised the promised   *)
(* id, val a 32-bit value (a window increment), code an error code, entries *)
(* the <<key, value>> pairs of SETTINGS, and hdr the header list that       *)
(* cno_hpack_decode yields for the bytes it is handed (corrupt: it fails).  *)

\* cno_frame_handle_invalid_stream
cno_frame_handle_invalid_stream(m, frame) ==
    IF /\ frame.stream # 0
       /\ frame.stream <= m.c.last_stream[cno_stream_is_local(m.c, frame.stream)]
       /\ \E i \in 0 .. CNO_STREAM_RESET_HISTORY - 1 :
             LET e == m.c.recently_reset[i]
             IN  /\ e.id = frame.stream
                 /\ \/ frame.type # "HEADERS" /\ ~e.is_headers
                    \/ frame.type # "DATA" /\ e.is_headers
    THEN m
    ELSE Call("cno_frame_write_error", <<m, "PROTOCOL_ERROR">>)

\* cno_frame_write_rst_stream_by_id
cno_frame_write_rst_stream_by_id(m, id, code) ==
    Call("cno_frame_write", <<m, OutFrame("RST_STREAM", {}, id, 4, [code |-> code])>>)

\* cno_frame_write_rst_stream
cno_frame_write_rst_stream(m, sp, code) ==
    LET m1 == Call("cno_frame_write_rst_stream_by_id", <<m, Deref(m, sp).id, code>>)
    IN  IF ~Ok(m1) THEN m1 ELSE Call("cno_stream_end_by_local", <<m1, sp>>)

\* cno_frame_handle_end_stream; trailers is "null" or "trailers"
cno_frame_handle_end_stream(m, sp, trailers) ==
    LET s == Deref(m, sp)
    IN  IF ~s.reading_head_response /\ s.remaining_payload # 0 /\ s.remaining_payload # -1
        THEN Call("cno_frame_write_rst_stream", <<m, sp, "PROTOCOL_ERROR">>)
        ELSE LET m1 == CNO_FIRE(m, "on_message_tail", s.id, [trailers |-> trailers])
             IN  IF ~Ok(m1) THEN m1
                 ELSE LET m2 == SetStream(m1, sp, [s EXCEPT !.r_state = "CLOSED"])
                      IN  IF s.w_state = "CLOSED" THEN Call("cno_stream_end", <<m2, sp>>) ELSE m2

\* cno_is_informational
cno_is_informational(code) == 100 <= code /\ code < 200

\* cno_parse_uint on the decimal strings the inputs use; (uint64_t) -1 otherwise
DecimalValue ==
    [v \in {"0", "1", "3", "100", "101", "200", "70000"} |->
        CASE v = "0" -> 0 [] v = "1" -> 1 [] v = "3" -> 3 [] v = "100" -> 100
          [] v = "101" -> 101 [] v = "200" -> 200 [] v = "70000" -> 70000]

cno_parse_uint(value) == IF value \in DOMAIN DecimalValue THEN DecimalValue[value] ELSE -1

\* cno_buffer_startswith(name, ":") on the header names the inputs use
PseudoNames == {":status", ":path", ":method", ":authority", ":scheme", ":unknown"}

\* the names CNO_HEADER_TRANSFORM maps to themselves, among those the inputs use
\* (a name with an upper-case letter or a ':' is not one)
LowerCaseNames == {"content-length", "te", "connection", "x-a", "host", "upgrade",
                   "transfer-encoding", "http2-settings"}

RECURSIVE LeadingPseudo(_, _)
\* the first loop of cno_frame_handle_message: the run of leading pseudo-headers
LeadingPseudo(hdrs, i) ==
    IF i <= Len(hdrs) /\ hdrs[i].name \in PseudoNames THEN LeadingPseudo(hdrs, i + 1)
    ELSE i - 1

PseudoInit ==
    [bad |-> FALSE, code |-> 0, path |-> "", has_path |-> FALSE, method |-> "",
     has_method |-> FALSE, has_authority |-> FALSE, has_scheme |-> FALSE]

RECURSIVE PseudoScan(_, _, _, _)
\* the second loop of cno_frame_handle_message: pseudo-headers in reverse order
PseudoScan(hdrs, i, is_response, a) ==
    IF i = 0 \/ a.bad THEN a
    ELSE LET h == hdrs[i]
             code == cno_parse_uint(h.value)
             next ==
               IF is_response
               THEN IF h.name = ":status"
                    THEN IF a.code # 0 \/ code < 0 \/ code > 65535
                         THEN [a EXCEPT !.bad = TRUE]
                         ELSE [a EXCEPT !.code = code]
                    ELSE [a EXCEPT !.bad = TRUE]
               ELSE CASE h.name = ":path" ->
                           IF a.has_path THEN [a EXCEPT !.bad = TRUE]
                           ELSE [a EXCEPT !.has_path = TRUE, !.path = h.value]
                      [] h.name = ":method" ->
                           IF a.has_method THEN [a EXCEPT !.bad = TRUE]
                           ELSE [a EXCEPT !.has_method = TRUE, !.method = h.value]
                      [] h.name = ":authority" ->
                           IF a.has_authority THEN [a EXCEPT !.bad = TRUE]
                           ELSE [a EXCEPT !.has_authority = TRUE]
                      [] h.name = ":scheme" ->
                           IF a.has_scheme THEN [a EXCEPT !.bad = TRUE]
                           ELSE [a EXCEPT !.has_scheme = TRUE]
                      [] OTHER -> [a EXCEPT !.bad = TRUE]
         IN  PseudoScan(hdrs, i - 1, is_response, next)

RECURSIVE RegularScan(_, _, _)
\* the third loop of cno_frame_handle_message: a.rp is stream->remaining_payload
RegularScan(hdrs, i, a) ==
    IF i > Len(hdrs) \/ a.bad THEN a
    ELSE LET h == hdrs[i]
         IN  IF h.name \notin LowerCaseNames THEN [a EXCEPT !.bad = TRUE]
             ELSE IF h.name = "connection" THEN [a EXCEPT !.bad = TRUE]
             ELSE IF h.name = "te" /\ h.value # "trailers" THEN [a EXCEPT !.bad = TRUE]
             ELSE IF h.name = "content-length"
             THEN IF cno_parse_uint(h.value) = -1
                  THEN [a EXCEPT !.bad = TRUE, !.rp = -1]
                  ELSE RegularScan(hdrs, i + 1, [a EXCEPT !.rp = cno_parse_uint(h.value)])
             ELSE RegularScan(hdrs, i + 1, a)

\* the end of cno_frame_handle_message: m is the result of on_message_head
MessageHead(m, sp, frame) ==
    IF ~Ok(m) THEN m
    ELSE IF CNO_FLAG_END_STREAM \in frame.flags
    THEN Call("cno_frame_handle_end_stream", <<m, sp, "null">>)
    ELSE m

\* cno_frame_handle_message that hands on_message_push the parent id first
Mut_MessageScanned(m, sp, frame, np, ps, rs) ==
    LET s0 == Deref(m, sp)
        is_response == m.c.client /\ frame.type # "PUSH_PROMISE"
        msg == [code |-> ps.code, method |-> ps.method, path |-> ps.path]
        m1 == SetStream(m, sp, [s0 EXCEPT !.remaining_payload = rs.rp])
    IN  IF np > 0 /\ s0.r_state # "HEADERS"
        THEN Call("cno_frame_write_rst_stream", <<m, sp, "PROTOCOL_ERROR">>)
        ELSE IF ps.bad THEN Call("cno_frame_write_rst_stream", <<m, sp, "PROTOCOL_ERROR">>)
        ELSE IF rs.bad THEN Call("cno_frame_write_rst_stream", <<m1, sp, "PROTOCOL_ERROR">>)
        ELSE IF s0.r_state # "HEADERS"
        THEN Call("cno_frame_handle_end_stream", <<m1, sp, "trailers">>)
        ELSE IF IF is_response THEN ps.code = 0
                ELSE ps.method # "CONNECT" /\
                     (~ps.has_path \/ ps.path = "" \/ ~ps.has_method \/ ps.method = ""
                        \/ ~ps.has_scheme)
        THEN Call("cno_frame_write_rst_stream", <<m1, sp, "PROTOCOL_ERROR">>)
        ELSE IF frame.type = "PUSH_PROMISE"
        THEN CNO_FIRE(m1, "on_message_push", frame.stream, [msg |-> msg, last |-> s0.id])
        ELSE IF cno_is_informational(ps.code) /\ rs.rp # -1
        THEN Call("cno_frame_write_rst_stream", <<m1, sp, "PROTOCOL_ERROR">>)
        ELSE MessageHead(
                 CNO_FIRE(IF ~cno_is_informational(ps.code)
                          THEN SetStream(m1, sp, [Deref(m1, sp) EXCEPT !.r_state = "DATA"])
                          ELSE m1,
                          "on_message_head", s0.id, [msg |-> msg]),
                 sp, frame)

\* cno_frame_handle_message once the header list is validated: np is the
\* number of leading pseudo-headers, ps and rs what the two loops over them and
\* over the regular headers found
MessageScanned(m, sp, frame, np, ps, rs) ==
    LET s0 == Deref(m, sp)
        is_response == m.c.client /\ frame.type # "PUSH_PROMISE"
        msg == [code |-> ps.code, method |-> ps.method, path |-> ps.path]
        m1 == SetStream(m, sp, [s0 EXCEPT !.remaining_payload = rs.rp])
    IN  IF np > 0 /\ s0.r_state # "HEADERS"
        THEN Call("cno_frame_write_rst_stream", <<m, sp, "PROTOCOL_ERROR">>)
        ELSE IF ps.bad THEN Call("cno_frame_write_rst_stream", <<m, sp, "PROTOCOL_ERROR">>)
        ELSE IF rs.bad THEN Call("cno_frame_write_rst_stream", <<m1, sp, "PROTOCOL_ERROR">>)
        ELSE IF s0.r_state # "HEADERS"
        THEN Call("cno_frame_handle_end_stream", <<m1, sp, "trailers">>)
        ELSE IF IF is_response THEN ps.code = 0
                ELSE ps.method # "CONNECT" /\
                     (~ps.has_path \/ ps.path = "" \/ ~ps.has_method \/ ps.method = ""
                        \/ ~ps.has_scheme)
        THEN Call("cno_frame_write_rst_stream", <<m1, sp, "PROTOCOL_ERROR">>)
        ELSE IF frame.type = "PUSH_PROMISE"
        THEN CNO_FIRE(m1, "on_message_push", s0.id, [msg |-> msg, last |-> frame.stream])
        ELSE IF cno_is_informational(ps.code) /\ rs.rp # -1
        THEN Call("cno_frame_write_rst_stream", <<m1, sp, "PROTOCOL_ERROR">>)
        ELSE MessageHead(
                 CNO_FIRE(IF ~cno_is_informational(ps.code)
                          THEN SetStream(m1, sp, [Deref(m1, sp) EXCEPT !.r_state = "DATA"])
                          ELSE m1,
                          "on_message_head", s0.id, [msg |-> msg]),
                 sp, frame)

\* cno_frame_handle_message: the three loops over the header list
cno_frame_handle_message(m, sp, frame, hdrs) ==
    MessageScanned(m, sp, frame, LeadingPseudo(hdrs, 1),
                   PseudoScan(hdrs, LeadingPseudo(hdrs, 1),
                              m.c.client /\ frame.type # "PUSH_PROMISE", PseudoInit),
                   RegularScan(hdrs, LeadingPseudo(hdrs, 1) + 1,
                               [bad |-> FALSE, rp |-> -1]))

\* cno_buffer_dyn_concat(&conn->continued, payload)
ContinuedConcat(m, frame) ==
    [m EXCEPT !.c.continued = [size |-> @.size + frame.len,
                               hdr |-> @.hdr \o frame.hdr,
                               corrupt |-> @.corrupt \/ frame.corrupt]]

NoContinued == [size |-> 0, hdr |-> <<>>, corrupt |-> FALSE]

\* cno_frame_handle_end_headers that skips the decoder when there is no stream
Mut_cno_frame_handle_end_headers(m, sp, frame, promised) ==
    IF CNO_FLAG_END_HEADERS \notin frame.flags
    THEN ContinuedConcat([m EXCEPT !.c.continued_flags = frame.flags,
                                   !.c.continued_stream = frame.stream,
                                   !.c.continued_promise = promised], frame)
    ELSE IF sp = NULL THEN m
    ELSE IF frame.corrupt
    THEN CNO_ERROR(Call("cno_frame_write_goaway", <<m, "COMPRESSION_ERROR">>), "COMPRESSION")
    ELSE Call("cno_frame_handle_message",
              <<[m EXCEPT !.dec = Append(@, [stream |-> frame.stream, hdr |-> frame.hdr])],
                sp, frame, frame.hdr>>)

\* cno_frame_handle_end_headers; m.dec lists the header blocks that
\* cno_hpack_decode was given and decoded, in order
cno_frame_handle_end_headers(m, sp, frame, promised) ==
    IF CNO_FLAG_END_HEADERS \notin frame.flags
    THEN ContinuedConcat([m EXCEPT !.c.continued_flags = frame.flags,
                                   !.c.continued_stream = frame.stream,
                                   !.c.continued_promise = promised], frame)
    ELSE IF frame.corrupt
    THEN CNO_ERROR(Call("cno_frame_write_goaway", <<m, "COMPRESSION_ERROR">>), "COMPRESSION")
    ELSE LET m1 == [m EXCEPT !.dec = Append(@, [stream |-> frame.stream, hdr |-> frame.hdr])]
         IN  IF sp # NULL THEN Call("cno_frame_handle_message", <<m1, sp, frame, frame.hdr>>)
             ELSE m1

\* cno_frame_handle_padding: f is the frame with its payload narrowed
cno_frame_handle_padding(m, frame) ==
    IF CNO_FLAG_PADDED \in frame.flags
    THEN IF frame.len = 0
         THEN [m |-> Call("cno_frame_write_error", <<m, "FRAME_SIZE_ERROR">>), f |-> frame]
         ELSE IF frame.pad + 1 > frame.len
         THEN [m |-> Call("cno_frame_write_error", <<m, "PROTOCOL_ERROR">>), f |-> frame]
         ELSE [m |-> m, f |-> [frame EXCEPT !.len = @ - (frame.pad + 1)]]
    ELSE [m |-> m, f |-> frame]

\* cno_frame_handle_priority as the other handlers call it: f is the frame with
\* its payload narrowed, freed tells that the stream was reset (and freed) while
\* the function returned CNO_OK
PriorityBlock(m, sp, frame) ==
    IF CNO_FLAG_PRIORITY \in frame.flags \/ frame.type = "PRIORITY"
    THEN IF frame.len < 5 \/ (frame.type = "PRIORITY" /\ frame.len # 5)
         THEN [m |-> Call("cno_frame_write_error", <<m, "FRAME_SIZE_ERROR">>), f |-> frame,
               freed |-> FALSE]
         ELSE IF frame.stream = 0
         THEN [m |-> Call("cno_frame_write_error", <<m, "PROTOCOL_ERROR">>), f |-> frame,
               freed |-> FALSE]
         ELSE IF frame.stream = frame.dep
         THEN IF sp # NULL
              THEN [m |-> Call("cno_frame_write_rst_stream", <<m, sp, "PROTOCOL_ERROR">>),
                    f |-> frame, freed |-> TRUE]
              ELSE [m |-> Call("cno_frame_write_error", <<m, "PROTOCOL_ERROR">>), f |-> frame,
                    freed |-> FALSE]
         ELSE [m |-> m, f |-> [frame EXCEPT !.len = @ - 5], freed |-> FALSE]
    ELSE [m |-> m, f |-> frame, freed |-> FALSE]

\* cno_frame_handle_priority, the handler of PRIORITY frames
cno_frame_handle_priority(m, sp, frame) == Call("PriorityBlock", <<m, sp, frame>>).m

\* what a read through the freed stream yields: the old bytes, or whatever the
\* allocator or a later allocation left there (m.ub)
Ghost(old, ub) ==
    [old EXCEPT !.id = IF ub.id = 0 THEN @ ELSE ub.id,
                !.r_state = IF ub.r_state = "stale" THEN @ ELSE ub.r_state,
                !.w_state = IF ub.w_state = "stale" THEN @ ELSE ub.w_state]

\* cno_frame_handle_headers
cno_frame_handle_headers(m, sp, frame) ==
    LET p == Call("cno_frame_handle_padding", <<m, frame>>)
        q == Call("PriorityBlock", <<p.m, sp, p.f>>)
        \* after cno_frame_handle_priority reset the stream and returned CNO_OK,
        \* `stream` still points to the freed struct
        sp1 == IF q.freed THEN DANGLING ELSE sp
        m1 == IF q.freed THEN [q.m EXCEPT !.ghost = Ghost(Deref(m, sp), m.ub)] ELSE q.m
        f == q.f
    IN  IF ~Ok(p.m) THEN p.m
        ELSE IF ~Ok(q.m) THEN q.m
        ELSE IF sp1 = NULL
        THEN IF m1.c.client \/ f.stream <= m1.c.last_stream[CNO_REMOTE]
             THEN LET m2 == Call("cno_frame_handle_invalid_stream", <<m1, f>>)
                  IN  IF ~Ok(m2) THEN m2
                      ELSE Call("cno_frame_handle_end_headers", <<m2, NULL, f, 0>>)
             ELSE IF m1.c.goaway_sent # 0 \/
                     wLe(m1.c.settings[CNO_LOCAL][MAX_CONCURRENT_STREAMS],
                         Wide(m1.c.stream_count[CNO_REMOTE]))
             THEN LET m2 == Call("cno_frame_write_rst_stream_by_id", <<m1, f.stream,
                                                             "REFUSED_STREAM">>)
                  IN  IF ~Ok(m2) THEN m2
                      ELSE Call("cno_frame_handle_end_headers", <<m2, NULL, f, 0>>)
             ELSE LET m2 == Call("cno_stream_new", <<m1, f.stream, CNO_REMOTE>>)
                  IN  IF ~Ok(m2) THEN m2
                      ELSE Call("cno_frame_handle_end_headers", <<m2, f.stream, f, 0>>)
        ELSE IF Deref(m1, sp1).r_state = "DATA"
        THEN IF CNO_FLAG_END_STREAM \notin f.flags
             THEN Call("cno_frame_write_error", <<m1, "PROTOCOL_ERROR">>)
             ELSE Call("cno_frame_handle_end_headers", <<m1, sp1, f, 0>>)
        ELSE IF Deref(m1, sp1).r_state # "HEADERS"
        THEN Call("cno_frame_write_error", <<m1, "PROTOCOL_ERROR">>)
        ELSE Call("cno_frame_handle_end_headers", <<m1, sp1, f, 0>>)

\* cno_frame_handle_push_promise
cno_frame_handle_push_promise(m, sp, frame) ==
    LET p == Call("cno_frame_handle_padding", <<m, frame>>)
        f == [p.f EXCEPT !.len = @ - 4]
    IN  IF ~Ok(p.m) THEN p.m
        ELSE IF p.f.len < 4 THEN Call("cno_frame_write_error", <<m, "FRAME_SIZE_ERROR">>)
        ELSE IF \/ m.c.settings[CNO_LOCAL][ENABLE_PUSH] = W0
                \/ cno_stream_is_local(m.c, frame.stream) = 0
                \/ sp = NULL
                \/ Deref(m, sp).r_state = "CLOSED"
        THEN Call("cno_frame_write_error", <<m, "PROTOCOL_ERROR">>)
        ELSE LET m1 == Call("cno_stream_new", <<m, f.promised, CNO_REMOTE>>)
             IN  IF ~Ok(m1) THEN m1
                 ELSE Call("cno_frame_handle_end_headers", <<m1, f.promised, f, f.promised>>)

\* cno_frame_handle_continuation
cno_frame_handle_continuation(m, sp, frame) ==
    IF m.c.continued_stream = 0 THEN Call("cno_frame_write_error", <<m, "PROTOCOL_ERROR">>)
    ELSE IF m.c.continued.size + frame.len >
            CNO_MAX_CONTINUATIONS * Narrow(m.c.settings[CNO_LOCAL][MAX_FRAME_SIZE])
    THEN Call("cno_frame_write_error", <<m, "ENHANCE_YOUR_CALM">>)
    ELSE LET m1 == ContinuedConcat(m, frame)
         IN  IF CNO_FLAG_END_HEADERS \in frame.flags
             THEN LET promise == m1.c.continued_promise
                      s == IF promise # 0
                           THEN (IF HasStream(m1.c, promise) THEN promise ELSE NULL)
                           ELSE sp
                      f == [frame EXCEPT
                              !.type = IF promise # 0 THEN "PUSH_PROMISE" ELSE "HEADERS",
                              !.flags = m1.c.continued_flags \cup {CNO_FLAG_END_HEADERS},
                              !.stream = m1.c.continued_stream,
                              !.len = m1.c.continued.size,
                              !.hdr = m1.c.continued.hdr,
                              !.corrupt = m1.c.continued.corrupt]
                      m2 == Call("cno_frame_handle_end_headers", <<m1, s, f, 0>>)
                  IN  IF ~Ok(m2) THEN m2
                      ELSE [m2 EXCEPT !.c.continued_stream = 0,
                                      !.c.continued = NoContinued]
             ELSE m1

WindowUpdate(stream, length) ==
    OutFrame("WINDOW_UPDATE", {}, stream, 4, [increment |-> Wide(length)])

\* the end of cno_frame_handle_data that leaves the window of the stream alone
Mut_DataDelivered(m, sp, f, length) ==
    LET rest == IF m.c.manual_flow_control THEN length - f.len ELSE length
    IN  IF ~Ok(m) THEN m
        ELSE IF CNO_FLAG_END_STREAM \in f.flags
        THEN Call("cno_frame_handle_end_stream", <<m, sp, "null">>)
        ELSE IF rest = 0 THEN m
        ELSE Call("cno_frame_write", <<m, WindowUpdate(Deref(m, sp).id, rest)>>)

\* the end of cno_frame_handle_data: m is the result of on_message_data, f the
\* frame without its padding, length its size with the padding
DataDelivered(m, sp, f, length) ==
    LET rest == IF m.c.manual_flow_control THEN length - f.len ELSE length
        m1 == IF m.c.manual_flow_control
              THEN SetStream(m, sp, [Deref(m, sp) EXCEPT
                                       !.window_recv = wSub(@, Wide(f.len))])
              ELSE m
    IN  IF ~Ok(m) THEN m
        ELSE IF CNO_FLAG_END_STREAM \in f.flags
        THEN Call("cno_frame_handle_end_stream", <<m, sp, "null">>)
        ELSE IF rest = 0 THEN m1
        ELSE Call("cno_frame_write", <<m1, WindowUpdate(Deref(m1, sp).id, rest)>>)

\* cno_frame_handle_data after the connection's WINDOW_UPDATE was written (m)
DataCounted(m, sp, f, length) ==
    LET s == Deref(m, sp)
        m1 == IF s.remaining_payload # -1
              THEN SetStream(m, sp, [s EXCEPT !.remaining_payload = @ - f.len])
              ELSE m
    IN  IF ~Ok(m) THEN m
        ELSE IF sp = NULL THEN Call("cno_frame_handle_invalid_stream", <<m, f>>)
        ELSE IF s.r_state # "DATA" THEN Call("cno_frame_write_rst_stream", <<m, sp, "STREAM_CLOSED">>)
        ELSE IF length # 0 /\
                wLt(wAdd(s.window_recv, m.c.settings[CNO_LOCAL][INITIAL_WINDOW_SIZE]),
                    Wide(length))
        THEN Call("cno_frame_write_rst_stream", <<m, sp, "FLOW_CONTROL_ERROR">>)
        ELSE DataDelivered(IF f.len # 0
                           THEN CNO_FIRE(m1, "on_message_data", f.stream, [len |-> f.len])
                           ELSE m1,
                           sp, f, length)

\* cno_frame_handle_data that counts only the frames of the streams it knows
Mut_DataPadded(m, sp, f, length) ==
    IF ~Ok(m) THEN m
    ELSE DataCounted(IF length # 0 /\ sp # NULL
                     THEN Call("cno_frame_write", <<m, WindowUpdate(0, length)>>) ELSE m,
                     sp, f, length)

\* cno_frame_handle_data after cno_frame_handle_padding (m, f)
DataPadded(m, sp, f, length) ==
    IF ~Ok(m) THEN m
    ELSE DataCounted(IF length # 0 THEN Call("cno_frame_write", <<m, WindowUpdate(0, length)>>) ELSE m,
                     sp, f, length)

\* cno_frame_handle_data
cno_frame_handle_data(m, sp, frame) ==
    DataPadded(Call("cno_frame_handle_padding", <<m, frame>>).m, sp,
               Call("cno_frame_handle_padding", <<m, frame>>).f, frame.len)

\* cno_frame_handle_ping
cno_frame_handle_ping(m, sp, frame) ==
    IF frame.stream # 0 THEN Call("cno_frame_write_error", <<m, "PROTOCOL_ERROR">>)
    ELSE IF frame.len # 8 THEN Call("cno_frame_write_error", <<m, "FRAME_SIZE_ERROR">>)
    ELSE IF CNO_FLAG_ACK \in frame.flags THEN CNO_FIRE(m, "on_pong", 0, [pong |-> TRUE])
    ELSE Call("cno_frame_write", <<m, OutFrame("PING", {CNO_FLAG_ACK}, 0, 8, [pong |-> TRUE])>>)

\* cno_frame_handle_goaway
cno_frame_handle_goaway(m, sp, frame) ==
    IF frame.stream # 0 THEN Call("cno_frame_write_error", <<m, "PROTOCOL_ERROR">>)
    ELSE IF frame.len < 8 THEN Call("cno_frame_write_error", <<m, "FRAME_SIZE_ERROR">>)
    ELSE IF frame.code # "NO_ERROR" THEN CNO_ERROR(m, "PROTOCOL")
    ELSE CNO_ERROR(m, "DISCONNECT")

\* cno_frame_handle_rst_stream
cno_frame_handle_rst_stream(m, sp, frame) ==
    IF sp = NULL THEN Call("cno_frame_handle_invalid_stream", <<m, frame>>)
    ELSE IF frame.len # 4 THEN Call("cno_frame_write_error", <<m, "FRAME_SIZE_ERROR">>)
    ELSE Call("cno_stream_end", <<m, sp>>)

RECURSIVE ApplySettings(_, _, _)
\* the loop of cno_frame_handle_settings over the 6-octet entries
ApplySettings(cfg, entries, i) ==
    IF i > Len(entries) THEN cfg
    ELSE LET setting == entries[i][1]
         IN  ApplySettings(
                 IF setting # 0 /\ setting < CNO_SETTINGS_UNDEFINED
                 THEN [cfg EXCEPT ![setting] = entries[i][2]] ELSE cfg,
                 entries, i + 1)

\* cno_frame_handle_settings
cno_frame_handle_settings(m, sp, frame) ==
    LET old_window == m.c.settings[CNO_REMOTE][INITIAL_WINDOW_SIZE]
        cfg == ApplySettings(m.c.settings[CNO_REMOTE], frame.entries, 1)
        m1 == [m EXCEPT !.c.settings[CNO_REMOTE] = cfg]
        m2 == IF wLt(old_window, cfg[INITIAL_WINDOW_SIZE])
              THEN CNO_FIRE(m1, "on_flow_increase", 0, [conn |-> TRUE])
              ELSE m1
        m3 == Call("cno_frame_write", <<m2, OutFrame("SETTINGS", {CNO_FLAG_ACK}, 0, 0,
                                           [entries |-> <<>>])>>)
    IN  IF frame.stream # 0 THEN Call("cno_frame_write_error", <<m, "PROTOCOL_ERROR">>)
        ELSE IF CNO_FLAG_ACK \in frame.flags
        THEN IF frame.len # 0 THEN Call("cno_frame_write_error", <<m, "FRAME_SIZE_ERROR">>) ELSE m
        ELSE IF frame.len % 6 # 0 THEN Call("cno_frame_write_error", <<m, "FRAME_SIZE_ERROR">>)
        ELSE IF wLt(Wide(1), cfg[ENABLE_PUSH])
        THEN Call("cno_frame_write_error", <<m1, "PROTOCOL_ERROR">>)
        ELSE IF wLt(INT31_MAX, cfg[INITIAL_WINDOW_SIZE])
        THEN Call("cno_frame_write_error", <<m1, "FLOW_CONTROL_ERROR">>)
        ELSE IF wLt(cfg[MAX_FRAME_SIZE], Wide(16384)) \/
                wLt(Wide(16777215), cfg[MAX_FRAME_SIZE])
        THEN Call("cno_frame_write_error", <<m1, "PROTOCOL_ERROR">>)
        ELSE IF ~Ok(m2) THEN m2
        ELSE IF ~Ok(m3) THEN m3
        ELSE CNO_FIRE(m3, "on_settings", 0, [conn |-> TRUE])

\* cno_frame_handle_window_update with the overflow of a stream window taken as
\* an error of the connection
Mut_cno_frame_handle_window_update(m, sp, frame) ==
    LET increment == frame.val
        m1 == [m EXCEPT !.c.window_send = wAdd(@, increment)]
        s == Deref(m, sp)
        m2 == SetStream(m, sp, [s EXCEPT !.window_send = wAdd(@, increment)])
    IN  IF frame.len # 4 THEN Call("cno_frame_write_error", <<m, "FRAME_SIZE_ERROR">>)
        ELSE IF increment = W0 \/ wLt(INT31_MAX, increment)
        THEN Call("cno_frame_write_error", <<m, "PROTOCOL_ERROR">>)
        ELSE IF frame.stream = 0
        THEN IF wLt(INT31_MAX, m1.c.window_send)
             THEN Call("cno_frame_write_error", <<m1, "FLOW_CONTROL_ERROR">>)
             ELSE CNO_FIRE(m1, "on_flow_increase", frame.stream, [conn |-> TRUE])
        ELSE IF sp # NULL
        THEN IF wLt(INT31_MAX,
                    wAdd(Deref(m2, sp).window_send,
                         m2.c.settings[CNO_REMOTE][INITIAL_WINDOW_SIZE]))
             THEN Call("cno_frame_write_error", <<m2, "FLOW_CONTROL_ERROR">>)
             ELSE CNO_FIRE(m2, "on_flow_increase", frame.stream, [conn |-> FALSE])
        ELSE Call("cno_frame_handle_invalid_stream", <<m, frame>>)

\* cno_frame_handle_window_update
cno_frame_handle_window_update(m, sp, frame) ==
    LET increment == frame.val
        m1 == [m EXCEPT !.c.window_send = wAdd(@, increment)]
        s == Deref(m, sp)
        m2 == SetStream(m, sp, [s EXCEPT !.window_send = wAdd(@, increment)])
    IN  IF frame.len # 4 THEN Call("cno_frame_write_error", <<m, "FRAME_SIZE_ERROR">>)
        ELSE IF increment = W0 \/ wLt(INT31_MAX, increment)
        THEN Call("cno_frame_write_error", <<m, "PROTOCOL_ERROR">>)
        ELSE IF frame.stream = 0
        THEN IF wLt(INT31_MAX, m1.c.window_send)
             THEN Call("cno_frame_write_error", <<m1, "FLOW_CONTROL_ERROR">>)
             ELSE CNO_FIRE(m1, "on_flow_increase", frame.stream, [conn |-> TRUE])
        ELSE IF sp # NULL
        THEN IF wLt(INT31_MAX,
                    wAdd(Deref(m2, sp).window_send,
                         m2.c.settings[CNO_REMOTE][INITIAL_WINDOW_SIZE]))
             THEN Call("cno_frame_write_rst_stream", <<m2, sp, "FLOW_CONTROL_ERROR">>)
             ELSE CNO_FIRE(m2, "on_flow_increase", frame.stream, [conn |-> FALSE])
        ELSE Call("cno_frame_handle_invalid_stream", <<m, frame>>)

IsKnownType(type) == \E i \in 1 .. Len(KnownFrameTypes) : KnownFrameTypes[i] = type

\* CNO_FRAME_HANDLERS[frame->type](conn, stream, frame)
Dispatch(m, sp, frame) ==
    CASE frame.type = "DATA" -> Call("cno_frame_handle_data", <<m, sp, frame>>)
      [] frame.type = "HEADERS" -> Call("cno_frame_handle_headers", <<m, sp, frame>>)
      [] frame.type = "PRIORITY" -> Call("cno_frame_handle_priority", <<m, sp, frame>>)
      [] frame.type = "RST_STREAM" -> Call("cno_frame_handle_rst_stream", <<m, sp, frame>>)
      [] frame.type = "SETTINGS" -> Call("cno_frame_handle_settings", <<m, sp, frame>>)
      [] frame.type = "PUSH_PROMISE" -> Call("cno_frame_handle_push_promise", <<m, sp, frame>>)
      [] frame.type = "PING" -> Call("cno_frame_handle_ping", <<m, sp, frame>>)
      [] frame.type = "GOAWAY" -> Call("cno_frame_handle_goaway", <<m, sp, frame>>)
      [] frame.type = "WINDOW_UPDATE" -> Call("cno_frame_handle_window_update", <<m, sp, frame>>)
      [] frame.type = "CONTINUATION" -> Call("cno_frame_handle_continuation", <<m, sp, frame>>)

\* cno_frame_handle
cno_frame_handle(m, frame) ==
    IF m.c.continued_stream # 0 /\
       (frame.type # "CONTINUATION" \/ frame.stream # m.c.continued_stream)
    THEN Call("cno_frame_write_error", <<m, "PROTOCOL_ERROR">>)
    ELSE IF ~IsKnownType(frame.type) THEN m
    ELSE Call("Dispatch", <<m, IF HasStream(m.c, frame.stream) THEN frame.stream ELSE NULL, frame>>)

----------------------------------------------------------------------------
(* The input buffer. The peer's byte stream is a sequence of units: the     *)
(* client preface, an HTTP/2 frame, an HTTP/1 head, or one octet of an      *)
(* HTTP/1 body. An item of conn->buffer is the octets from .. to - 1 of a   *)
(* unit, so that any fragmentation of the stream can be delivered.          *)

BlankUnit ==
    [k |-> "frame", type |-> "", flags |-> {}, stream |-> 0, len |-> 0, pad |-> 0,
     dep |-> 0, promised |-> 0, val |-> W0, code |-> "", entries |-> <<>>,
     hdr |-> <<>>, corrupt |-> FALSE, ch |-> "",
     h1 |-> [minor |-> 1, code |-> 0, method |-> "", path |-> "", bad |-> FALSE]]

PrefaceUnit == [BlankUnit EXCEPT !.k = "preface"]

Octet(ch) == [BlankUnit EXCEPT !.k = "octet", !.ch = ch]

UnitSize(u) ==
    CASE u.k = "preface" -> CNO_PREFACE_SIZE
      [] u.k = "frame" -> 9 + u.len
      [] u.k = "h1head" -> u.len
      [] u.k = "octet" -> 1

Whole(u) == [u |-> u, from |-> 0, to |-> UnitSize(u)]

RECURSIVE BufSize(_)
\* conn->buffer.size
BufSize(buf) ==
    IF buf = <<>> THEN 0 ELSE (Head(buf).to - Head(buf).from) + BufSize(Tail(buf))

\* cno_buffer_dyn_concat(&conn->buffer, data): data continues the last unit or
\* starts the next one
BufConcat(buf, item) ==
    IF buf # <<>> /\ buf[Len(buf)].u = item.u /\ buf[Len(buf)].to = item.from
    THEN [buf EXCEPT ![Len(buf)].to = item.to]
    ELSE Append(buf, item)

RECURSIVE cno_buffer_dyn_shift(_, _)
\* cno_buffer_dyn_shift
cno_buffer_dyn_shift(buf, n) ==
    IF n = 0 \/ buf = <<>> THEN buf
    ELSE LET it == Head(buf)
             sz == it.to - it.from
         IN  IF n >= sz THEN cno_buffer_dyn_shift(Tail(buf), n - sz)
             ELSE <<[it EXCEPT !.from = @ + n]>> \o Tail(buf)

RECURSIVE BufOctets(_, _)
\* the first n octets of conn->buffer.data, one character for an octet of an
\* HTTP/1 body
BufOctets(buf, n) ==
    IF n <= 0 \/ buf = <<>> THEN <<>>
    ELSE <<Head(buf).u.ch>> \o BufOctets(Tail(buf), n - (Head(buf).to - Head(buf).from))

\* !strncmp(conn->buffer.data, CNO_PREFACE.data, conn->buffer.size): the buffered
\* octets are a prefix of the preface, or they hold the whole preface and the
\* octet after it is 0 like the preface's terminator (the first octet of a frame
\* shorter than 2^16)
PrefaceMatches(buf) ==
    \/ buf = <<>>
    \/ /\ buf[1].u.k = "preface" /\ buf[1].from = 0
       /\ \/ Len(buf) = 1
          \/ buf[2].u.k = "frame" /\ buf[2].from = 0 /\ buf[2].u.len < 65536

\* the state handlers return m with m.nx: "WAIT" for CNO_OK, else the next state
Wait(m) == [m EXCEPT !.nx = "WAIT"]
Goto(m, state) == [m EXCEPT !.nx = state]

\* cno_frame_write_settings: the entries that differ, as <<key, value>>
cno_frame_write_settings(m, previous, current) ==
    LET diff == SelectSeq([i \in 1 .. CNO_SETTINGS_UNDEFINED - 1 |-> <<i, current[i]>>],
                          LAMBDA e : previous[e[1]] # e[2])
    IN  Call("cno_frame_write", <<m, OutFrame("SETTINGS", {}, 0, 6 * Len(diff), [entries |-> diff])>>)

\* cno_connection_upgrade with the two settings of the delta exchanged
Mut_cno_connection_upgrade(m) ==
    LET m1 == [m EXCEPT !.c.mode = "h2"]
        m2 == IF m1.c.client
              THEN CNO_WRITEV(m1, OutRaw("PREFACE", CNO_PREFACE_SIZE, [raw |-> TRUE]))
              ELSE m1
    IN  IF ~Ok(m2) THEN m2
        ELSE Call("cno_frame_write_settings", <<m2, m2.c.settings[CNO_LOCAL], CNO_SETTINGS_STANDARD>>)

\* cno_connection_upgrade
cno_connection_upgrade(m) ==
    LET m1 == [m EXCEPT !.c.mode = "h2"]
        m2 == IF m1.c.client
              THEN CNO_WRITEV(m1, OutRaw("PREFACE", CNO_PREFACE_SIZE, [raw |-> TRUE]))
              ELSE m1
    IN  IF ~Ok(m2) THEN m2
        ELSE Call("cno_frame_write_settings", <<m2, CNO_SETTINGS_STANDARD, m2.c.settings[CNO_LOCAL]>>)

\* cno_when_closed
cno_when_closed(m) == Wait(m)

\* cno_when_h2_init
cno_when_h2_init(m) ==
    LET m1 == Call("cno_connection_upgrade", <<m>>) IN IF ~Ok(m1) THEN m1 ELSE Goto(m1, "H2_PREFACE")

\* cno_when_h2_preface
cno_when_h2_preface(m) ==
    IF ~m.c.client
    THEN IF ~PrefaceMatches(m.c.buffer) THEN CNO_ERROR(m, "PROTOCOL")
         ELSE IF BufSize(m.c.buffer) < CNO_PREFACE_SIZE THEN Wait(m)
         ELSE Goto([m EXCEPT !.c.buffer = cno_buffer_dyn_shift(@, CNO_PREFACE_SIZE)],
                   "H2_SETTINGS")
    ELSE Goto(m, "H2_SETTINGS")

\* the 24-bit length field the buffer starts with; the preface's "PRI" read as a
\* length is 0x505249
FrontLen(buf) == IF buf[1].u.k = "frame" THEN buf[1].u.len ELSE 5263945

\* cno_when_h2_settings
cno_when_h2_settings(m) ==
    IF BufSize(m.c.buffer) < 5 THEN Wait(m)
    ELSE IF \/ m.c.buffer[1].u.k # "frame"
            \/ m.c.buffer[1].u.type # "SETTINGS"
            \/ m.c.buffer[1].u.flags # {}
    THEN CNO_ERROR(m, "PROTOCOL")
    ELSE Goto(m, "H2_FRAME")

\* cno_when_h2_frame with the size tested after the on_frame hook
Mut_cno_when_h2_frame(m) ==
    IF BufSize(m.c.buffer) < 9 THEN Wait(m)
    ELSE LET len == FrontLen(m.c.buffer)
             frame == m.c.buffer[1].u
             m1 == CNO_FIRE(m, "on_frame", 0, [type |-> frame.type, of |-> frame.stream])
             m2 == Call("cno_frame_handle", <<m1, frame>>)
         IN  IF BufSize(m.c.buffer) < 9 + len THEN Wait(m)
             ELSE IF ~Ok(m1) THEN m1
             ELSE IF len > Narrow(m.c.settings[CNO_LOCAL][MAX_FRAME_SIZE])
             THEN Call("cno_frame_write_error", <<m1, "FRAME_SIZE_ERROR">>)
             ELSE IF ~Ok(m2) THEN m2
             ELSE Goto([m2 EXCEPT !.c.buffer = cno_buffer_dyn_shift(@, 9 + len)],
                       "H2_FRAME")

\* cno_when_h2_frame
cno_when_h2_frame(m) ==
    IF BufSize(m.c.buffer) < 9 THEN Wait(m)
    ELSE LET len == FrontLen(m.c.buffer)
             frame == m.c.buffer[1].u
             m1 == CNO_FIRE(m, "on_frame", 0, [type |-> frame.type, of |-> frame.stream])
             m2 == Call("cno_frame_handle", <<m1, frame>>)
         IN  IF len > Narrow(m.c.settings[CNO_LOCAL][MAX_FRAME_SIZE])
             THEN Call("cno_frame_write_error", <<m, "FRAME_SIZE_ERROR">>)
             ELSE IF BufSize(m.c.buffer) < 9 + len THEN Wait(m)
             ELSE IF ~Ok(m1) THEN m1
             ELSE IF ~Ok(m2) THEN m2
             ELSE Goto([m2 EXCEPT !.c.buffer = cno_buffer_dyn_shift(@, 9 + len)],
                       "H2_FRAME")

----------------------------------------------------------------------------
(* The HTTP/1 states. phr_parse_request / phr_parse_response are external:  *)
(* a head unit parses to its fields once it is complete (-2 before that),   *)
(* and anything else in front of the buffer is a malformed head (-1).       *)

ParseHead(buf) ==
    IF buf[1].u.k # "h1head" \/ buf[1].from # 0 \/ buf[1].u.h1.bad THEN -1
    ELSE IF buf[1].to < buf[1].u.len THEN -2
    ELSE buf[1].u.len

\* the header names of the inputs after `*p = CNO_HEADER_TRANSFORM[*p]`; "" stands
\* for a name with an octet the table maps to 0
H1Lower(name) ==
    CASE name \in LowerCaseNames -> name
      [] name = "Host" -> "host"
      [] name = "Upgrade" -> "upgrade"
      [] name = "Content-Length" -> "content-length"
      [] name = "Transfer-Encoding" -> "transfer-encoding"
      [] OTHER -> ""

\* cno_remove_chunked_te on the values the inputs use: the size left
cno_remove_chunked_te(value) ==
    CASE value = "chunked" -> 0
      [] value = "gzip, chunked" -> 4
      [] OTHER -> 1

\* the index of last_stream the HTTP/1 states use: last_stream[conn->client]
H1Side(c) == IF c.client THEN 1 ELSE 0

H1Stream(c) == IF HasStream(c, c.last_stream[H1Side(c)]) THEN c.last_stream[H1Side(c)]
               ELSE NULL

\* the header loop of cno_when_h1_head: a.upgrade is `upgrade`, a.kept the names
\* of the headers left in msg
H1Headers(m, sid, hdrs, i, a) ==
    IF i > Len(hdrs) \/ ~Ok(m) THEN [m |-> m, a |-> a]
    ELSE LET name == H1Lower(hdrs[i].name)
             value == hdrs[i].value
             rem == m.c.remaining_h1_payload
             keep == [a EXCEPT !.kept = Append(@, name)]
         IN  IF name = "" THEN [m |-> CNO_ERROR(m, "PROTOCOL"), a |-> a]
             ELSE IF ~m.c.client /\ name = "host" THEN Call("H1Headers", <<m, sid, hdrs, i + 1, a>>)
             ELSE IF name = "http2-settings" THEN Call("H1Headers", <<m, sid, hdrs, i + 1, a>>)
             ELSE IF name = "upgrade"
             THEN IF m.c.mode # "h1" THEN Call("H1Headers", <<m, sid, hdrs, i + 1, a>>)
                  ELSE IF value = "h2c"
                  THEN IF m.c.client \/ sid # 1 \/ a.upgrade \/ m.c.disallow_h2_upgrade
                       THEN Call("H1Headers", <<m, sid, hdrs, i + 1, a>>)
                       ELSE LET m1 == CNO_WRITEV(m, OutRaw("H1_101", 71, [raw |-> TRUE]))
                                m2 == IF Ok(m1) THEN Call("cno_connection_upgrade", <<m1>>) ELSE m1
                            IN  Call("H1Headers", <<m2, sid, hdrs, i + 1, a>>)
                  ELSE IF ~m.c.client
                  THEN Call("H1Headers", <<m, sid, hdrs, i + 1, [keep EXCEPT !.upgrade = TRUE]>>)
                  ELSE Call("H1Headers", <<m, sid, hdrs, i + 1, keep>>)
             ELSE IF name = "content-length"
             THEN IF rem = -1 THEN Call("H1Headers", <<m, sid, hdrs, i + 1, a>>)
                  ELSE IF rem # 0 THEN [m |-> CNO_ERROR(m, "PROTOCOL"), a |-> a]
                  ELSE IF cno_parse_uint(value) = -1
                  THEN [m |-> CNO_ERROR([m EXCEPT !.c.remaining_h1_payload = -1],
                                        "PROTOCOL"), a |-> a]
                  ELSE Call("H1Headers", <<[m EXCEPT !.c.remaining_h1_payload =
                                               cno_parse_uint(value)],
                                 sid, hdrs, i + 1, keep>>)
             ELSE IF name = "transfer-encoding"
             THEN IF value = "identity" THEN Call("H1Headers", <<m, sid, hdrs, i + 1, a>>)
                  ELSE Call("H1Headers", <<[m EXCEPT !.c.remaining_h1_payload = -1], sid, hdrs,
                                 i + 1,
                                 IF cno_remove_chunked_te(value) = 0 THEN a ELSE keep>>)
             ELSE Call("H1Headers", <<m, sid, hdrs, i + 1, keep>>)

\* the end of cno_when_h1_head: m is the result of the callbacks
H1HeadDone(m, sid, code, ok) ==
    LET m1 == [m EXCEPT !.c.buffer = cno_buffer_dyn_shift(@, ok)]
        m2 == SetStream(m1, sid, [Deref(m1, sid) EXCEPT !.r_state = "DATA"])
    IN  IF ~Ok(m) THEN m
        ELSE IF cno_is_informational(code) /\ code # 101 THEN Goto(m1, "H1_HEAD")
        ELSE Goto(m2, IF m2.c.remaining_h1_payload = -1 THEN "H1_CHUNK"
                      ELSE IF m2.c.remaining_h1_payload # 0 THEN "H1_BODY"
                      ELSE "H1_TAIL")

\* cno_when_h1_head after its header loop, which returned m and a
H1HeadScanned(m, sid, unit, a, ok) ==
    LET code == unit.h1.code
        m1 == IF code = 101 THEN [m EXCEPT !.c.remaining_h1_payload = -2] ELSE m
        m2 == IF Deref(m1, sid).reading_head_response
              THEN [m1 EXCEPT !.c.remaining_h1_payload = 0] ELSE m1
        m3 == CNO_FIRE(m2, "on_message_head", sid,
                       [msg |-> [code |-> code, method |-> unit.h1.method,
                                 path |-> unit.h1.path],
                        kept |-> a.kept])
    IN  IF ~Ok(m) THEN m
        ELSE IF code # 101 /\ cno_is_informational(code) /\ m.c.remaining_h1_payload # 0
        THEN CNO_ERROR(m, "PROTOCOL")
        ELSE H1HeadDone(IF Ok(m3) /\ a.upgrade
                        THEN CNO_FIRE(m3, "on_upgrade", 0, [conn |-> TRUE]) ELSE m3,
                        sid, code, ok)

\* cno_when_h1_head from the parse on; sid is the stream found or created
H1HeadParse(m, sid) ==
    LET ok == ParseHead(m.c.buffer)
        unit == m.c.buffer[1].u
    IN  IF ok = -2
        THEN IF BufSize(m.c.buffer) >
                CNO_MAX_CONTINUATIONS * Narrow(m.c.settings[CNO_LOCAL][MAX_FRAME_SIZE])
             THEN CNO_ERROR(m, "PROTOCOL") ELSE Wait(m)
        ELSE IF ok = -1 THEN CNO_ERROR(m, "PROTOCOL")
        ELSE IF unit.h1.minor # 0 /\ unit.h1.minor # 1 THEN CNO_ERROR(m, "PROTOCOL")
        ELSE H1HeadScanned(
                 Call("H1Headers", <<[m EXCEPT !.c.remaining_h1_payload = 0], sid, unit.hdr, 1,
                           [upgrade |-> FALSE, kept |-> <<>>]>>).m,
                 sid, unit,
                 Call("H1Headers", <<[m EXCEPT !.c.remaining_h1_payload = 0], sid, unit.hdr, 1,
                           [upgrade |-> FALSE, kept |-> <<>>]>>).a,
                 ok)

\* cno_when_h1_head
cno_when_h1_head(m) ==
    LET sid == H1Stream(m.c)
        m1 == Call("cno_stream_new", <<m, (m.c.last_stream[CNO_REMOTE] + 1) +
                                (IF (m.c.last_stream[CNO_REMOTE] + 1) % 2 = 0 THEN 1 ELSE 0),
                             CNO_REMOTE>>)
    IN  IF BufSize(m.c.buffer) = 0 THEN Wait(m)
        ELSE IF m.c.client
        THEN IF sid = NULL \/ Deref(m, sid).r_state # "HEADERS"
             THEN CNO_ERROR(m, "PROTOCOL")
             ELSE Call("H1HeadParse", <<m, sid>>)
        ELSE IF sid = NULL
        THEN IF /\ ~m.c.disallow_h2_prior_knowledge
                /\ m.c.last_stream[CNO_REMOTE] = 0
                /\ PrefaceMatches(m.c.buffer)
             THEN IF BufSize(m.c.buffer) < CNO_PREFACE_SIZE THEN Wait(m)
                  ELSE Goto(m, "H2_INIT")
             ELSE IF ~Ok(m1) THEN m1
             ELSE Call("H1HeadParse", <<m1, m1.c.last_stream[CNO_REMOTE]>>)
        ELSE IF Deref(m, sid).r_state # "HEADERS" THEN CNO_ERROR(m, "WOULD_BLOCK")
        ELSE Call("H1HeadParse", <<m, sid>>)

\* a < b on uint64_t values kept as signed residues
ULt(a, b) == IF (a >= 0) = (b >= 0) THEN a < b ELSE b < 0

\* the end of a turn of the loop of cno_when_h1_body when the loop ends after
\* one turn whatever is left of the payload
Mut_H1BodyTurn(m, next) ==
    IF ~Ok(m) THEN m ELSE Goto(m, next)

\* the end of a turn of the loop of cno_when_h1_body: m is the result of
\* on_message_data
H1BodyTurn(m, next) ==
    IF ~Ok(m) THEN m
    ELSE IF m.c.remaining_h1_payload = 0 THEN Goto(m, next)
    ELSE Wait(m)

\* the octets cno_when_h1_body takes from the buffer
H1BodyTake(c) ==
    IF ULt(c.remaining_h1_payload, BufSize(c.buffer)) THEN c.remaining_h1_payload
    ELSE BufSize(c.buffer)

\* cno_when_h1_body (the handler of H1_BODY and H1_CHUNK_BODY). The second turn
\* of the while loop finds the payload exhausted or the buffer empty.
cno_when_h1_body(m) ==
    LET next == IF m.c.state = "H1_BODY" THEN "H1_TAIL" ELSE "H1_CHUNK_TAIL"
        b == H1BodyTake(m.c)
        m1 == [m EXCEPT !.c.remaining_h1_payload = @ - b,
                        !.c.buffer = cno_buffer_dyn_shift(@, b)]
    IN  IF m.c.remaining_h1_payload = 0 THEN Goto(m, next)
        ELSE IF BufSize(m.c.buffer) = 0 THEN Wait(m)
        ELSE H1BodyTurn(IF H1Stream(m1.c) # NULL
                        THEN CNO_FIRE(m1, "on_message_data", H1Stream(m1.c),
                                      [len |-> b, data |-> BufOctets(m.c.buffer, b)])
                        ELSE m1,
                        next)

\* the end of cno_when_h1_tail without the test of the mode
Mut_H1TailDone(m) ==
    IF ~Ok(m) THEN m ELSE Goto(m, "H1_HEAD")

\* the end of cno_when_h1_tail
H1TailDone(m) ==
    IF ~Ok(m) THEN m ELSE Goto(m, IF m.c.mode = "h2" THEN "H2_PREFACE" ELSE "H1_HEAD")

\* cno_when_h1_tail after on_message_tail, whose result is m
H1TailFired(m) ==
    LET sid == H1Stream(m.c)
        m1 == SetStream(m, sid, [Deref(m, sid) EXCEPT !.r_state = "CLOSED"])
    IN  IF ~Ok(m) THEN m
        ELSE H1TailDone(IF sid = NULL THEN m
                        ELSE IF Deref(m1, sid).w_state = "CLOSED"
                        THEN Call("cno_stream_end", <<m1, sid>>)
                        ELSE m1)

\* cno_when_h1_tail
cno_when_h1_tail(m) ==
    H1TailFired(IF H1Stream(m.c) # NULL
                THEN CNO_FIRE(m, "on_message_tail", H1Stream(m.c), [trailers |-> "null"])
                ELSE m)

\* the value cno_when_h1_chunk adds for a character of the size field
ChunkDigit(ch) ==
    CASE ch \in {"0", "1", "2", "3", "4", "5", "6", "7", "8", "9"} ->
           (CHOOSE d \in 0 .. 9 : <<"0", "1", "2", "3", "4", "5", "6", "7", "8", "9">>[d + 1] = ch)
      [] ch \in {"A", "B", "C", "D", "E", "F"} ->
           (CHOOSE d \in 0 .. 5 : <<"A", "B", "C", "D", "E", "F">>[d + 1] = ch)
      [] ch \in {"a", "b", "c", "d", "e", "f"} ->
           (CHOOSE d \in 0 .. 5 : <<"a", "b", "c", "d", "e", "f">>[d + 1] = ch)
      [] OTHER -> -1

\* size_t as four 16-bit limbs, the most significant first
SizeZero == <<0, 0, 0, 0>>

\* length * 16 + d in size_t, for d from -1 to 15
SizeTimes16Plus(v, d) ==
    LET t0 == v[4] * 16 + d
        t1 == v[3] * 16 + (t0 \div 65536)
        t2 == v[2] * 16 + (t1 \div 65536)
        t3 == v[1] * 16 + (t2 \div 65536)
    IN  <<t3 % 65536, t2 % 65536, t1 % 65536, t0 % 65536>>

\* a < b in size_t
SizeLt(a, b) ==
    \E i \in 1 .. 4 : a[i] < b[i] /\ \A j \in 1 .. i - 1 : a[j] = b[j]

\* a count of octets above any the peer of the model sends
HugeLength == 2147483647

\* a size_t value as the signed residue that remaining_h1_payload is kept as; a
\* value that is neither below 2^31 nor within 2^31 of 2^64 becomes HugeLength
SizeResidue(v) ==
    IF v[1] = 0 /\ v[2] = 0 /\ v[3] < 32768 THEN v[3] * 65536 + v[4]
    ELSE IF v[1] = 65535 /\ v[2] = 65535 /\ v[3] >= 32768
    THEN (v[3] - 65536) * 65536 + v[4]
    ELSE HugeLength

RECURSIVE ChunkLength(_, _, _)
\* the for loop of cno_when_h1_chunk: the position it stops at and the length,
\* or bad when length < prev
ChunkLength(buf, p, length) ==
    IF buf[p].u.ch \in {"\r", "\n", ";"}
    THEN [p |-> p, length |-> SizeResidue(length), bad |-> FALSE]
    ELSE LET l == SizeTimes16Plus(length, ChunkDigit(buf[p].u.ch))
         IN  IF SizeLt(l, length) THEN [p |-> p, length |-> SizeResidue(l), bad |-> TRUE]
             ELSE ChunkLength(buf, p + 1, l)

\* cno_when_h1_chunk; the buffer holds octets only in the chunked states
cno_when_h1_chunk(m) ==
    LET buf == m.c.buffer
        eols == {i \in 1 .. Len(buf) : buf[i].u.ch = "\n"}
        eol == CHOOSE i \in eols : \A j \in eols : i <= j
        r == ChunkLength(buf, 1, SizeZero)
        crlf == r.p + 1 <= Len(buf) /\ buf[r.p].u.ch = "\r" /\ buf[r.p + 1].u.ch = "\n"
        used == IF buf[r.p].u.ch = ";" THEN eol ELSE r.p + 1
    IN  IF eols = {}
        THEN IF BufSize(buf) >= Narrow(m.c.settings[CNO_LOCAL][MAX_FRAME_SIZE])
             THEN CNO_ERROR(m, "PROTOCOL") ELSE Wait(m)
        ELSE IF r.bad THEN CNO_ERROR(m, "PROTOCOL")
        ELSE IF buf[r.p].u.ch # ";" /\ ~crlf THEN CNO_ERROR(m, "PROTOCOL")
        ELSE Goto([m EXCEPT !.c.buffer = cno_buffer_dyn_shift(@, used),
                            !.c.remaining_h1_payload = r.length],
                  IF r.length # 0 THEN "H1_CHUNK_BODY" ELSE "H1_TRAILERS")

\* cno_when_h1_chunk_tail
cno_when_h1_chunk_tail(m) ==
    IF BufSize(m.c.buffer) < 2 THEN Wait(m)
    ELSE IF m.c.buffer[1].u.ch # "\r" \/ m.c.buffer[2].u.ch # "\n"
    THEN CNO_ERROR(m, "PROTOCOL")
    ELSE Goto([m EXCEPT !.c.buffer = cno_buffer_dyn_shift(@, 2)], "H1_CHUNK")

\* cno_when_h1_trailers
cno_when_h1_trailers(m) ==
    LET r == Call("cno_when_h1_chunk_tail", <<m>>)
    IN  IF ~Ok(r) THEN r ELSE IF r.nx # "WAIT" THEN Goto(r, "H1_TAIL") ELSE Wait(r)

\* CNO_STATE_MACHINE[conn->state](conn)
StateHandler(m) ==
    CASE m.c.state = "CLOSED" -> Call("cno_when_closed", <<m>>)
      [] m.c.state = "H2_INIT" -> Call("cno_when_h2_init", <<m>>)
      [] m.c.state = "H2_PREFACE" -> Call("cno_when_h2_preface", <<m>>)
      [] m.c.state = "H2_SETTINGS" -> Call("cno_when_h2_settings", <<m>>)
      [] m.c.state = "H2_FRAME" -> Call("cno_when_h2_frame", <<m>>)
      [] m.c.state = "H1_HEAD" -> Call("cno_when_h1_head", <<m>>)
      [] m.c.state = "H1_BODY" -> Call("cno_when_h1_body", <<m>>)
      [] m.c.state = "H1_TAIL" -> Call("cno_when_h1_tail", <<m>>)
      [] m.c.state = "H1_CHUNK" -> Call("cno_when_h1_chunk", <<m>>)
      [] m.c.state = "H1_CHUNK_BODY" -> Call("cno_when_h1_body", <<m>>)
      [] m.c.state = "H1_CHUNK_TAIL" -> Call("cno_when_h1_chunk_tail", <<m>>)
      [] m.c.state = "H1_TRAILERS" -> Call("cno_when_h1_trailers", <<m>>)

\* the while (1) loop of cno_connection_data_received
StateLoop(m) ==
    LET r == Call("StateHandler", <<m>>)
    IN  IF ~Ok(r) \/ r.nx = "WAIT" THEN r
        ELSE Call("StateLoop", <<[r EXCEPT !.c.state = r.nx, !.path = Append(@, r.nx)]>>)

\* cno_buffer_dyn_concat that keeps the new data in place of the buffer
Mut_BufConcatAll(buf, data) == data

RECURSIVE BufConcatAll(_, _)
\* cno_buffer_dyn_concat of data that spans several units
BufConcatAll(buf, data) ==
    IF data = <<>> THEN buf ELSE BufConcatAll(BufConcat(buf, Head(data)), Tail(data))

\* cno_connection_data_received without the test for CNO_STATE_CLOSED
Mut_cno_connection_data_received(m, data) ==
    Call("StateLoop", <<[m EXCEPT !.c.buffer = BufConcatAll(@, data)]>>)

\* cno_connection_data_received; data is the sequence of items received (<<>>
\* when length is 0)
cno_connection_data_received(m, data) ==
    IF m.c.state = "CLOSED" THEN CNO_ERROR(m, "DISCONNECT")
    ELSE Call("StateLoop", <<[m EXCEPT !.c.buffer = BufConcatAll(@, data)]>>)

\* cno_connection_made
cno_connection_made(m, version) ==
    IF m.c.state # "CLOSED" THEN CNO_ERROR(m, "ASSERTION")
    ELSE Call("cno_connection_data_received", <<
             [m EXCEPT !.c.state = IF version = "h2" THEN "H2_INIT" ELSE "H1_HEAD",
                       !.path = <<IF version = "h2" THEN "H2_INIT" ELSE "H1_HEAD">>],
             <<>>>>)

----------------------------------------------------------------------------
(* The writer API. A message to write is its code, method and path, its      *)
(* header list and enc, the size cno_hpack_encode gives its header block.    *)
(* HTTP/1 text handed to on_writev is the list of its iovecs.                *)

\* an iovec of text, and an iovec of n octets of the caller's data
Text(s) == [text |-> s, bytes |-> Len(s)]
Data(n) == [text |-> "", bytes |-> n]

RECURSIVE SumBytes(_)
SumBytes(parts) == IF parts = <<>> THEN 0 ELSE Head(parts).bytes + SumBytes(Tail(parts))

OutText(parts) == OutRaw("TEXT", SumBytes(parts), [parts |-> parts])

\* the header names of the inputs that have an upper-case letter (isupper)
UpperCaseNames == {"Host", "Upgrade", "Content-Length", "Transfer-Encoding", "X-A"}

HexDigits == <<"0", "1", "2", "3", "4", "5", "6", "7", "8", "9",
               "A", "B", "C", "D", "E", "F">>

RECURSIVE Hex(_)
\* snprintf "%zX"
Hex(n) == IF n < 16 THEN HexDigits[n + 1] ELSE Hex(n \div 16) \o HexDigits[(n % 16) + 1]

\* the loops of cno_connection_lost over the buckets
EndAll(m, i) ==
    IF i >= CNO_STREAM_BUCKETS THEN m
    ELSE IF m.c.streams[i] = <<>> THEN Call("EndAll", <<m, i + 1>>)
    ELSE LET m1 == Call("cno_stream_end", <<m, m.c.streams[i][1].id>>)
         IN  IF ~Ok(m1) THEN m1 ELSE Call("EndAll", <<m1, i>>)

\* cno_connection_lost
cno_connection_lost(m) ==
    IF m.c.mode # "h2"
    THEN IF H1Stream(m.c) # NULL /\ Deref(m, H1Stream(m.c)).r_state # "CLOSED"
         THEN CNO_ERROR(m, "DISCONNECT") ELSE m
    ELSE Call("EndAll", <<[m EXCEPT !.c.state = "CLOSED"], 0>>)

\* cno_connection_next_stream
cno_connection_next_stream(c) ==
    IF c.client /\ c.last_stream[CNO_LOCAL] = 0 THEN 1 ELSE c.last_stream[CNO_LOCAL] + 2

\* cno_write_reset
cno_write_reset(m, stream, code) ==
    IF m.c.mode # "h2" THEN m
    ELSE IF stream = 0 THEN Call("cno_frame_write_goaway", <<m, code>>)
    ELSE IF HasStream(m.c, stream) THEN Call("cno_frame_write_rst_stream", <<m, stream, code>>)
    ELSE m

\* cno_connection_stop
cno_connection_stop(m) == Call("cno_write_reset", <<m, 0, "NO_ERROR">>)

\* cno_write_push without the test of the side that opened the parent
Mut_cno_write_push(m, stream, msg) ==
    LET child == cno_connection_next_stream(m.c)
        m1 == Call("cno_stream_new", <<m, child, CNO_LOCAL>>)
        m2 == Call("cno_frame_write", <<m1, OutFrame("PUSH_PROMISE", {CNO_FLAG_END_HEADERS}, stream,
                                           4 + msg.enc,
                                           [promised |-> child, msg |-> msg])>>)
        m3 == CNO_FIRE(m2, "on_message_head", child,
                       [msg |-> [code |-> msg.code, method |-> msg.method,
                                 path |-> msg.path]])
    IN  IF m.c.state = "CLOSED" THEN CNO_ERROR(m, "DISCONNECT")
        ELSE IF m.c.client THEN CNO_ERROR(m, "ASSERTION")
        ELSE IF m.c.mode # "h2" \/ m.c.settings[CNO_REMOTE][ENABLE_PUSH] = W0 THEN m
        ELSE IF \/ ~HasStream(m.c, stream)
                \/ Deref(m, stream).w_state = "CLOSED"
        THEN m
        ELSE IF ~Ok(m1) THEN m1
        ELSE IF ~Ok(m2) THEN m2
        ELSE IF ~Ok(m3) THEN m3
        ELSE CNO_FIRE(m3, "on_message_tail", child, [trailers |-> "null"])

\* cno_write_push
cno_write_push(m, stream, msg) ==
    LET child == cno_connection_next_stream(m.c)
        m1 == Call("cno_stream_new", <<m, child, CNO_LOCAL>>)
        m2 == Call("cno_frame_write", <<m1, OutFrame("PUSH_PROMISE", {CNO_FLAG_END_HEADERS}, stream,
                                           4 + msg.enc,
                                           [promised |-> child, msg |-> msg])>>)
        m3 == CNO_FIRE(m2, "on_message_head", child,
                       [msg |-> [code |-> msg.code, method |-> msg.method,
                                 path |-> msg.path]])
    IN  IF m.c.state = "CLOSED" THEN CNO_ERROR(m, "DISCONNECT")
        ELSE IF m.c.client THEN CNO_ERROR(m, "ASSERTION")
        ELSE IF m.c.mode # "h2" \/ m.c.settings[CNO_REMOTE][ENABLE_PUSH] = W0 THEN m
        ELSE IF \/ cno_stream_is_local(m.c, stream) = 1
                \/ ~HasStream(m.c, stream)
                \/ Deref(m, stream).w_state = "CLOSED"
        THEN m
        ELSE IF ~Ok(m1) THEN m1
        ELSE IF ~Ok(m2) THEN m2
        ELSE IF ~Ok(m3) THEN m3
        ELSE CNO_FIRE(m3, "on_message_tail", child, [trailers |-> "null"])

\* cno_discard_remaining_payload that leaves a stream with both halves closed in
\* the table
Mut_cno_discard_remaining_payload(m, sp) ==
    LET m1 == SetStream(m, sp, [Deref(m, sp) EXCEPT !.w_state = "CLOSED"])
    IN  IF Deref(m1, sp).r_state = "CLOSED" THEN m1
        ELSE IF ~m1.c.client /\ m1.c.mode = "h2"
        THEN Call("cno_frame_write_rst_stream", <<m1, sp, "NO_ERROR">>)
        ELSE m1

\* cno_discard_remaining_payload
cno_discard_remaining_payload(m, sp) ==
    LET m1 == SetStream(m, sp, [Deref(m, sp) EXCEPT !.w_state = "CLOSED"])
    IN  IF Deref(m1, sp).r_state = "CLOSED" THEN Call("cno_stream_end_by_local", <<m1, sp>>)
        ELSE IF ~m1.c.client /\ m1.c.mode = "h2"
        THEN Call("cno_frame_write_rst_stream", <<m1, sp, "NO_ERROR">>)
        ELSE m1

\* the header loop of cno_write_message in HTTP/1 mode
WriteH1Headers(m, sp, hdrs, i) ==
    IF i > Len(hdrs) \/ ~Ok(m) THEN m
    ELSE LET name == hdrs[i].name
             value == hdrs[i].value
             line(n, v) == OutText(<<Text(n), Text(": "), Text(v), Text("\r\n")>>)
             unchunk == SetStream(m, sp, [Deref(m, sp) EXCEPT !.writing_chunked = FALSE])
         IN  IF name = ":authority"
             THEN Call("WriteH1Headers", <<CNO_WRITEV(m, line("host", value)), sp, hdrs, i + 1>>)
             ELSE IF name \in PseudoNames THEN Call("WriteH1Headers", <<m, sp, hdrs, i + 1>>)
             ELSE IF name = "content-length" \/ name = "upgrade"
             THEN Call("WriteH1Headers", <<CNO_WRITEV(unchunk, line(name, value)), sp, hdrs, i + 1>>)
             ELSE IF name = "transfer-encoding"
             THEN IF cno_remove_chunked_te(value) = 0
                  THEN Call("WriteH1Headers", <<m, sp, hdrs, i + 1>>)
                  ELSE Call("WriteH1Headers", <<
                           CNO_WRITEV(m, line(name, IF value = "gzip, chunked" THEN "gzip"
                                                    ELSE value)),
                           sp, hdrs, i + 1>>)
             ELSE Call("WriteH1Headers", <<CNO_WRITEV(m, line(name, value)), sp, hdrs, i + 1>>)

\* the end of cno_write_message in HTTP/1 mode: m is the result of writing the
\* blank line
WriteH1Done(m, sp, msg) ==
    IF ~Ok(m) THEN m
    ELSE IF msg.code = 101 /\ m.c.state = "H1_HEAD" /\ Deref(m, sp).r_state # "CLOSED"
    THEN [m EXCEPT !.c.remaining_h1_payload = -2, !.info = FALSE]
    ELSE m

\* cno_write_message in HTTP/1 mode after the header loop, whose result is m
WriteH1End(m, sp, msg) ==
    IF ~Ok(m) THEN m
    ELSE WriteH1Done(
             IF Deref(m, sp).writing_chunked
             THEN CNO_WRITEV(m, OutText(<<Text("transfer-encoding: chunked\r\n\r\n")>>))
             ELSE CNO_WRITEV(m, OutText(<<Text("\r\n")>>)),
             sp, msg)

\* cno_write_message in HTTP/1 mode after the first line, whose result is m
WriteH1Lines(m, sp, msg, final) ==
    IF ~Ok(m) THEN m
    ELSE WriteH1End(
             Call("WriteH1Headers", <<
                 SetStream(m, sp, [Deref(m, sp) EXCEPT
                                     !.writing_chunked =
                                         ~cno_is_informational(msg.code) /\ ~final]),
                 sp, msg.hdrs, 1>>),
             sp, msg)

\* cno_write_message in HTTP/1 mode, from the request or status line on
WriteH1Message(m, sp, msg, final) ==
    WriteH1Lines(
        IF m.c.client
        THEN CNO_WRITEV(m, OutText(<<Text(msg.method), Text(" "), Text(msg.path),
                                     Text(" HTTP/1.1\r\n")>>))
        ELSE CNO_WRITEV(m, OutText(<<Text("HTTP/1.1 " \o ToString(msg.code) \o
                                          " No Reason\r\n")>>)),
        sp, msg, final)

\* cno_write_message in HTTP/2 mode: the HEADERS frame
WriteH2Message(m, stream, msg, final) ==
    Call("cno_frame_write", <<m, OutFrame("HEADERS",
                                {CNO_FLAG_END_HEADERS} \cup
                                    (IF final THEN {CNO_FLAG_END_STREAM} ELSE {}),
                                stream, msg.enc, [msg |-> msg])>>)

\* the end of cno_write_message: m is the result of writing the message
MessageWritten(m, stream, final) ==
    IF ~Ok(m) THEN m
    ELSE IF final THEN Call("cno_discard_remaining_payload", <<m, stream>>)
    ELSE IF ~m.info
    THEN SetStream(m, stream, [Deref(m, stream) EXCEPT !.w_state = "DATA"])
    ELSE m

\* cno_write_message from the stream lookup on; m is the result of cno_stream_new
\* when the stream had to be created
MessageStream(m, stream, msg, final) ==
    LET m1 == SetStream(m, stream, [Deref(m, stream) EXCEPT
                                      !.reading_head_response = (msg.method = "HEAD")])
    IN  IF ~Ok(m) THEN m
        ELSE IF ~HasStream(m.c, stream) \/ Deref(m, stream).w_state # "HEADERS"
        THEN CNO_ERROR(m, "INVALID_STREAM")
        ELSE MessageWritten(IF m1.c.mode # "h2"
                            THEN Call("WriteH1Message", <<m1, stream, msg, final>>)
                            ELSE Call("WriteH2Message", <<m1, stream, msg, final>>),
                            stream, final)

\* cno_write_message; m.info is is_informational
cno_write_message(m, stream, msg, final) ==
    IF m.c.state = "CLOSED" THEN CNO_ERROR(m, "DISCONNECT")
    ELSE IF cno_is_informational(msg.code) /\ final THEN CNO_ERROR(m, "ASSERTION")
    ELSE IF \E i \in 1 .. Len(msg.hdrs) : msg.hdrs[i].name \in UpperCaseNames
    THEN CNO_ERROR(m, "ASSERTION")
    ELSE MessageStream(
             IF m.c.client /\ ~HasStream(m.c, stream)
             THEN Call("cno_stream_new", <<[m EXCEPT !.info = cno_is_informational(msg.code)],
                                 stream, CNO_LOCAL>>)
             ELSE [m EXCEPT !.info = cno_is_informational(msg.code)],
             stream, msg, final)

\* cno_write_data in HTTP/1 mode: what goes to on_writev
WriteH1Data(m, sp, length, final) ==
    LET chunk == <<Text(Hex(length) \o "\r\n"), Data(length), Text("\r\n"),
                   Text("0\r\n\r\n")>>
    IN  IF Deref(m, sp).writing_chunked
        THEN IF length # 0
             THEN CNO_WRITEV(m, OutText(SubSeq(chunk, 1, 3 + (IF final THEN 1 ELSE 0))))
             ELSE CNO_WRITEV(m, OutText(SubSeq(chunk, 4, 3 + (IF final THEN 1 ELSE 0))))
        ELSE IF length # 0 THEN CNO_WRITEV(m, OutText(<<Data(length)>>))
        ELSE m

\* the int64_t sw of cno_write_data after its two clamps
SendWindow(m, sp) ==
    LET sw == wAdd(Deref(m, sp).window_send, m.c.settings[CNO_REMOTE][INITIAL_WINDOW_SIZE])
        sw1 == IF wLt(m.c.window_send, sw) THEN m.c.window_send ELSE sw
    IN  IF wLt(sw1, W0) THEN W0 ELSE sw1

\* buf.size after the clamp of cno_write_data
Accepted(m, sp, length) ==
    IF m.c.mode = "h2" /\ wLt(SendWindow(m, sp), Wide(length))
    THEN Narrow(SendWindow(m, sp)) ELSE length

\* the end of cno_write_data: m is the result of cno_discard_remaining_payload
\* when final was set
DataDone(m, size) == IF ~Ok(m) THEN m ELSE [m EXCEPT !.n = size]

\* cno_write_data that takes the octets from the connection's window only
Mut_DataWritten(m, stream, size, final) ==
    LET m1 == IF m.c.mode # "h2" THEN m
              ELSE [m EXCEPT !.c.window_send = wSub(@, Wide(size))]
    IN  IF ~Ok(m) THEN m
        ELSE DataDone(IF final THEN Call("cno_discard_remaining_payload", <<m1, stream>>) ELSE m1, size)

\* cno_write_data after the write, whose result is m
DataWritten(m, stream, size, final) ==
    LET m1 == IF m.c.mode # "h2" THEN m
              ELSE SetStream([m EXCEPT !.c.window_send = wSub(@, Wide(size))], stream,
                             [Deref(m, stream) EXCEPT !.window_send = wSub(@, Wide(size))])
    IN  IF ~Ok(m) THEN m
        ELSE DataDone(IF final THEN Call("cno_discard_remaining_payload", <<m1, stream>>) ELSE m1, size)

\* cno_write_data with buf.size and final as the clamp left them
DataClamped(m, stream, size, final) ==
    IF m.c.mode = "h2" /\ size = 0 /\ ~final THEN [m EXCEPT !.n = 0]
    ELSE DataWritten(
             IF m.c.mode # "h2" THEN Call("WriteH1Data", <<m, stream, size, final>>)
             ELSE Call("cno_frame_write", <<m, OutFrame("DATA",
                                              IF final THEN {CNO_FLAG_END_STREAM} ELSE {},
                                              stream, size, [data |-> size])>>),
             stream, size, final)

\* cno_write_data that leaves final as the caller set it
Mut_cno_write_data(m, stream, length, final) ==
    IF m.c.state = "CLOSED" THEN CNO_ERROR(m, "DISCONNECT")
    ELSE IF ~HasStream(m.c, stream) \/ Deref(m, stream).w_state # "DATA"
    THEN CNO_ERROR(m, "INVALID_STREAM")
    ELSE DataClamped(m, stream, Accepted(m, stream, length), final)

\* cno_write_data; m.n is the count returned when m.ret is "OK"
cno_write_data(m, stream, length, final) ==
    IF m.c.state = "CLOSED" THEN CNO_ERROR(m, "DISCONNECT")
    ELSE IF ~HasStream(m.c, stream) \/ Deref(m, stream).w_state # "DATA"
    THEN CNO_ERROR(m, "INVALID_STREAM")
    ELSE DataClamped(m, stream, Accepted(m, stream, length),
                     final /\ Accepted(m, stream, length) = length)

\* cno_write_ping
cno_write_ping(m) ==
    IF m.c.mode # "h2" THEN CNO_ERROR(m, "ASSERTION")
    ELSE Call("cno_frame_write", <<m, OutFrame("PING", {}, 0, 8, [pong |-> FALSE])>>)

\* cno_write_frame
cno_write_frame(m, frame) ==
    IF m.c.mode # "h2" THEN CNO_ERROR(m, "ASSERTION") ELSE Call("cno_frame_write", <<m, frame>>)

\* cno_increase_flow_window
cno_increase_flow_window(m, stream, bytes) ==
    IF bytes = 0 \/ stream = 0 \/ m.c.mode # "h2" THEN m
    ELSE IF ~HasStream(m.c, stream) THEN m
    ELSE Call("cno_frame_write", <<
             SetStream(m, stream, [Deref(m, stream) EXCEPT
                                     !.window_recv = wAdd(@, Wide(bytes))]),
             WindowUpdate(stream, bytes)>>)

\* cno_connection_set_config
cno_connection_set_config(m, settings) ==
    LET m1 == IF m.c.state # "H2_INIT" /\ m.c.mode = "h2"
              THEN Call("cno_frame_write_settings", <<m, m.c.settings[CNO_LOCAL], settings>>)
              ELSE m
    IN  IF settings[ENABLE_PUSH] # W0 /\ settings[ENABLE_PUSH] # Wide(1)
        THEN CNO_ERROR(m, "ASSERTION")
        ELSE IF wLt(settings[MAX_FRAME_SIZE], Wide(16384)) \/
                wLt(Wide(16777215), settings[MAX_FRAME_SIZE])
        THEN CNO_ERROR(m, "ASSERTION")
        ELSE IF ~Ok(m1) THEN m1
        ELSE [m1 EXCEPT !.c.settings[CNO_LOCAL] = settings]

----------------------------------------------------------------------------
(* The function table. Calls between the translated functions go through Call, *)
(* which names the callee and carries its arguments; TLC then keeps one copy  *)
(* of each function's body in its statistics instead of one per call path.   *)

Call(f, a) ==
    CASE f = "cno_stream_new" -> cno_stream_new(a[1], a[2], a[3])
      [] f = "cno_stream_free" -> cno_stream_free(a[1], a[2])
      [] f = "cno_stream_end" -> cno_stream_end(a[1], a[2])
      [] f = "cno_stream_end_by_local" -> cno_stream_end_by_local(a[1], a[2])
      [] f = "cno_frame_write_parts" -> cno_frame_write_parts(a[1], a[2], a[3], a[4], a[5])
      [] f = "cno_frame_write" -> cno_frame_write(a[1], a[2])
      [] f = "cno_frame_write_goaway" -> cno_frame_write_goaway(a[1], a[2])
      [] f = "cno_frame_write_error" -> cno_frame_write_error(a[1], a[2])
      [] f = "cno_frame_handle_invalid_stream" -> cno_frame_handle_invalid_stream(a[1], a[2])
      [] f = "cno_frame_write_rst_stream_by_id" -> cno_frame_write_rst_stream_by_id(a[1], a[2], a[3])
      [] f = "cno_frame_write_rst_stream" -> cno_frame_write_rst_stream(a[1], a[2], a[3])
      [] f = "cno_frame_handle_end_stream" -> cno_frame_handle_end_stream(a[1], a[2], a[3])
      [] f = "cno_frame_handle_message" -> cno_frame_handle_message(a[1], a[2], a[3], a[4])
      [] f = "cno_frame_handle_end_headers" -> cno_frame_handle_end_headers(a[1], a[2], a[3], a[4])
      [] f = "cno_frame_handle_padding" -> cno_frame_handle_padding(a[1], a[2])
      [] f = "PriorityBlock" -> PriorityBlock(a[1], a[2], a[3])
      [] f = "cno_frame_handle_priority" -> cno_frame_handle_priority(a[1], a[2], a[3])
      [] f = "cno_frame_handle_headers" -> cno_frame_handle_headers(a[1], a[2], a[3])
      [] f = "cno_frame_handle_push_promise" -> cno_frame_handle_push_promise(a[1], a[2], a[3])
      [] f = "cno_frame_handle_continuation" -> cno_frame_handle_continuation(a[1], a[2], a[3])
      [] f = "cno_frame_handle_data" -> cno_frame_handle_data(a[1], a[2], a[3])
      [] f = "cno_frame_handle_ping" -> cno_frame_handle_ping(a[1], a[2], a[3])
      [] f = "cno_frame_handle_goaway" -> cno_frame_handle_goaway(a[1], a[2], a[3])
      [] f = "cno_frame_handle_rst_stream" -> cno_frame_handle_rst_stream(a[1], a[2], a[3])
      [] f = "cno_frame_handle_settings" -> cno_frame_handle_settings(a[1], a[2], a[3])
      [] f = "cno_frame_handle_window_update" -> cno_frame_handle_window_update(a[1], a[2], a[3])
      [] f = "Dispatch" -> Dispatch(a[1], a[2], a[3])
      [] f = "cno_frame_handle" -> cno_frame_handle(a[1], a[2])
      [] f = "cno_frame_write_settings" -> cno_frame_write_settings(a[1], a[2], a[3])
      [] f = "cno_connection_upgrade" -> cno_connection_upgrade(a[1])
      [] f = "cno_when_closed" -> cno_when_closed(a[1])
      [] f = "cno_when_h2_init" -> cno_when_h2_init(a[1])
      [] f = "cno_when_h2_preface" -> cno_when_h2_preface(a[1])
      [] f = "cno_when_h2_settings" -> cno_when_h2_settings(a[1])
      [] f = "cno_when_h2_frame" -> cno_when_h2_frame(a[1])
      [] f = "H1Headers" -> H1Headers(a[1], a[2], a[3], a[4], a[5])
      [] f = "H1HeadParse" -> H1HeadParse(a[1], a[2])
      [] f = "cno_when_h1_head" -> cno_when_h1_head(a[1])
      [] f = "cno_when_h1_body" -> cno_when_h1_body(a[1])
      [] f = "cno_when_h1_tail" -> cno_when_h1_tail(a[1])
      [] f = "cno_when_h1_chunk" -> cno_when_h1_chunk(a[1])
      [] f = "cno_when_h1_chunk_tail" -> cno_when_h1_chunk_tail(a[1])
      [] f = "cno_when_h1_trailers" -> cno_when_h1_trailers(a[1])
      [] f = "StateHandler" -> StateHandler(a[1])
      [] f = "StateLoop" -> StateLoop(a[1])
      [] f = "cno_connection_data_received" -> cno_connection_data_received(a[1], a[2])
      [] f = "cno_connection_made" -> cno_connection_made(a[1], a[2])
      [] f = "EndAll" -> EndAll(a[1], a[2])
      [] f = "cno_connection_lost" -> cno_connection_lost(a[1])
      [] f = "cno_write_reset" -> cno_write_reset(a[1], a[2], a[3])
      [] f = "cno_connection_stop" -> cno_connection_stop(a[1])
      [] f = "cno_write_push" -> cno_write_push(a[1], a[2], a[3])
      [] f = "cno_discard_remaining_payload" -> cno_discard_remaining_payload(a[1], a[2])
      [] f = "WriteH1Headers" -> WriteH1Headers(a[1], a[2], a[3], a[4])
      [] f = "WriteH1Message" -> WriteH1Message(a[1], a[2], a[3], a[4])
      [] f = "WriteH2Message" -> WriteH2Message(a[1], a[2], a[3], a[4])
      [] f = "cno_write_message" -> cno_write_message(a[1], a[2], a[3], a[4])
      [] f = "WriteH1Data" -> WriteH1Data(a[1], a[2], a[3], a[4])
      [] f = "cno_write_data" -> cno_write_data(a[1], a[2], a[3], a[4])
      [] f = "cno_write_ping" -> cno_write_ping(a[1])
      [] f = "cno_write_frame" -> cno_write_frame(a[1], a[2])
      [] f = "cno_increase_flow_window" -> cno_increase_flow_window(a[1], a[2], a[3])
      [] f = "cno_connection_set_config" -> cno_connection_set_config(a[1], a[2])

----------------------------------------------------------------------------
(* The inputs: what the peer sends and what the embedder asks for.           *)

MaxCalls == 4
MaxFlowCalls == 6
MaxStreamId == 3
GarbageId == 7

Frame(type, flags, stream, len) ==
    [BlankUnit EXCEPT !.type = type, !.flags = flags, !.stream = stream, !.len = len]

Hdr(name, value) == [name |-> name, value |-> value]

RequestHeaders == <<Hdr(":method", "GET"), Hdr(":scheme", "http"), Hdr(":path", "/")>>
ResponseHeaders == <<Hdr(":status", "200")>>
TrailerHeaders == <<Hdr("x-a", "1")>>

HeadersFrame(stream, flags, hdr) ==
    [Frame("HEADERS", flags, stream, 5) EXCEPT !.hdr = hdr]

\* HEADERS with a priority block whose stream dependency is dep
PriorityHeadersFrame(stream, flags, dep, hdr) ==
    [Frame("HEADERS", flags \cup {CNO_FLAG_PRIORITY}, stream, 10) EXCEPT
        !.hdr = hdr, !.dep = dep]

SettingsFrame(entries) ==
    [Frame("SETTINGS", {}, 0, 6 * Len(entries)) EXCEPT !.entries = entries]

WindowUpdateFrame(stream, val) ==
    [Frame("WINDOW_UPDATE", {}, stream, 4) EXCEPT !.val = val]

GoawayFrame(code) == [Frame("GOAWAY", {}, 0, 8) EXCEPT !.code = code]

PushPromiseFrame(stream, promised) ==
    [Frame("PUSH_PROMISE", {CNO_FLAG_END_HEADERS}, stream, 9) EXCEPT
        !.promised = promised, !.hdr = RequestHeaders]

H1Head(code, method, path, hdr) ==
    [BlankUnit EXCEPT !.k = "h1head", !.len = 40, !.hdr = hdr,
                      !.h1 = [minor |-> 1, code |-> code, method |-> method,
                              path |-> path, bad |-> FALSE]]

EndFlags == {{CNO_FLAG_END_HEADERS}, {CNO_FLAG_END_HEADERS, CNO_FLAG_END_STREAM}}

\* the frames the peer of a server sends, and the frames the peer of a client sends
FramesOfClient ==
    {HeadersFrame(1, f, RequestHeaders) : f \in EndFlags}
    \cup {HeadersFrame(2, {CNO_FLAG_END_HEADERS}, RequestHeaders),
          HeadersFrame(3, {CNO_FLAG_END_HEADERS}, RequestHeaders),
          HeadersFrame(1, {CNO_FLAG_END_HEADERS, CNO_FLAG_END_STREAM}, TrailerHeaders),
          PriorityHeadersFrame(1, {CNO_FLAG_END_HEADERS, CNO_FLAG_END_STREAM}, 1,
                               TrailerHeaders)}

FramesOfServer ==
    {HeadersFrame(1, f, ResponseHeaders) : f \in EndFlags}
    \cup {PriorityHeadersFrame(1, {CNO_FLAG_END_HEADERS, CNO_FLAG_END_STREAM}, 1,
                               ResponseHeaders),
          PushPromiseFrame(1, 2)}

FramesOfBoth ==
    {SettingsFrame(<<>>),
     Frame("DATA", {}, 1, 3), Frame("DATA", {CNO_FLAG_END_STREAM}, 1, 3),
     WindowUpdateFrame(0, INT31_MAX), WindowUpdateFrame(1, Wide(1)),
     Frame("RST_STREAM", {}, 1, 4), Frame("PING", {}, 0, 8),
     GoawayFrame("NO_ERROR")}

\* what one consume call delivers: a sequence of whole units
H2Inputs(c) ==
    {<<u>> : u \in FramesOfBoth \cup (IF c.client THEN FramesOfServer ELSE FramesOfClient)}
    \cup (IF c.client THEN {}
          ELSE {<<PrefaceUnit>>, <<PrefaceUnit, SettingsFrame(<<>>)>>,
                <<PrefaceUnit, SettingsFrame(<<>>),
                  HeadersFrame(1, {CNO_FLAG_END_HEADERS}, RequestHeaders)>>})

H1HeadInputs(c) ==
    IF c.client
    THEN {<<H1Head(200, "", "", <<Hdr("Content-Length", "3")>>)>>,
          <<H1Head(200, "", "", <<Hdr("Transfer-Encoding", "chunked")>>)>>,
          <<H1Head(100, "", "", <<>>)>>}
    ELSE {<<H1Head(0, "GET", "/", <<Hdr("Host", "a")>>)>>,
          <<H1Head(0, "POST", "/", <<Hdr("Content-Length", "3")>>)>>,
          <<H1Head(0, "POST", "/", <<Hdr("Transfer-Encoding", "chunked")>>)>>,
          <<PrefaceUnit, SettingsFrame(<<>>)>>}

H1BodyInputs ==
    {<<Octet("a"), Octet("b"), Octet("c")>>,
     <<Octet("3"), Octet("\r"), Octet("\n")>>,
     <<Octet("\r"), Octet("\n")>>,
     <<Octet("0"), Octet("\r"), Octet("\n"), Octet("\r"), Octet("\n")>>}

Inputs(c) ==
    CASE c.state = "H1_HEAD" -> H1HeadInputs(c)
      [] c.state \in {"H1_BODY", "H1_TAIL", "H1_CHUNK", "H1_CHUNK_BODY", "H1_CHUNK_TAIL",
                      "H1_TRAILERS"} -> H1BodyInputs
      [] OTHER -> H2Inputs(c)

Items(data) == [i \in 1 .. Len(data) |-> Whole(data[i])]

Message(code, method, path, hdrs, enc) ==
    [code |-> code, method |-> method, path |-> path, hdrs |-> hdrs, enc |-> enc]

Messages(c) ==
    IF c.client
    THEN {Message(0, "GET", "/", <<>>, 10), Message(0, "HEAD", "/", <<>>, 10)}
    ELSE {Message(200, "", "", <<Hdr("content-length", "3")>>, 10),
          Message(200, "", "", <<>>, 40000)}

DataLengths == {0, 3, 70000}

----------------------------------------------------------------------------
(* The state machine: one action per API call.                              *)

NoStream == NewStream(0, 0)

\* what a read of the freed stream can yield: its old bytes, or other values
StaleUb == [id |-> 0, r_state |-> "stale", w_state |-> "stale"]

UbChoices ==
    {StaleUb,
     [id |-> GarbageId, r_state |-> "stale", w_state |-> "stale"],
     [id |-> 0, r_state |-> "DATA", w_state |-> "stale"]}

\* the threaded record at the start of an API call; path collects the values the
\* call assigns to conn->state
Enter(c, fail, ub) ==
    [c |-> c, cbs |-> <<>>, out |-> <<>>, ret |-> "OK", nx |-> "WAIT", n |-> 0,
     fail |-> fail, ub |-> ub, ghost |-> NoStream, info |-> FALSE, path |-> <<>>,
     dec |-> <<>>]

\* the callbacks whose failure changes the call that produced r with none failing
Fails(r) ==
    {"none"} \cup {r.cbs[i].cb : i \in 1 .. Len(r.cbs)}
             \cup (IF r.out # <<>> THEN {"on_writev"} ELSE {})

CallbackIds(cs, cb) == {cs[i].id : i \in {j \in 1 .. Len(cs) : cs[j].cb = cb}}

\* the callbacks of the calls before the last one
Absorb(h, cs, begun) ==
    [calls |-> h.calls + 1,
     credit |-> h.credit,
     begun |-> h.begun \/ begun,
     started |-> h.started \cup CallbackIds(cs, "on_stream_start"),
     headed |-> h.headed \cup CallbackIds(cs, "on_message_head"),
     tailed |-> h.tailed \cup CallbackIds(cs, "on_message_tail"),
     ended |-> h.ended \cup CallbackIds(cs, "on_stream_end")]

RECURSIVE DataOctets(_)
\* the payload octets of the DATA frames among the frames written
DataOctets(frames) ==
    IF frames = <<>> THEN 0
    ELSE (IF Head(frames).type = "DATA" THEN Head(frames).size ELSE 0)
         + DataOctets(Tail(frames))

RECURSIVE Increments(_)
\* the sum of the increments of the WINDOW_UPDATE frames for stream 0 in data
Increments(data) ==
    IF data = <<>> THEN W0
    ELSE wAdd(IF Head(data).k = "frame" /\ Head(data).type = "WINDOW_UPDATE" /\
                 Head(data).stream = 0
              THEN Head(data).val ELSE W0,
              Increments(Tail(data)))

\* what the peer has granted on the connection less what was sent as DATA (what
\* a failing on_writev was given was not sent)
Credit(credit, r, op) ==
    wSub(wAdd(credit, IF op.op = "consume" THEN Increments(op.data) ELSE W0),
         IF r.fail = "on_writev" THEN W0 ELSE Wide(DataOctets(r.out)))

\* the call returns r
Return(r, op) ==
    /\ conn' = r.c
    /\ cbs' = r.cbs
    /\ out' = r.out
    /\ ret' = [code |-> r.ret, n |-> r.n]
    /\ call' = op
    /\ hist' = [Absorb(hist, cbs, op.op = "begin" /\ conn.state = "CLOSED") EXCEPT
                   !.credit = Credit(@, r, op)]

\* the process is alive and the embedder makes another call
Ready == ret.code # "SIGSEGV" /\ hist.calls < MaxCalls

\* the same for an embedder that tears the connection down when begin or consume
\* has failed, or a callback of its own
FlowReady ==
    /\ hist.calls < MaxFlowCalls
    /\ ret.code \notin {"SIGSEGV", "CALLBACK"}
    /\ call.op \in {"begin", "consume"} => ret.code = "OK"

\* cno_connection_init
InitConnection(client) ==
    [client |-> client, mode |-> "h1", state |-> "CLOSED", buffer |-> <<>>,
     settings |-> [i \in {CNO_REMOTE, CNO_LOCAL} |->
                      IF i = CNO_REMOTE THEN CNO_SETTINGS_CONSERVATIVE
                      ELSE CNO_SETTINGS_INITIAL],
     window_recv |-> CNO_SETTINGS_STANDARD[INITIAL_WINDOW_SIZE],
     window_send |-> CNO_SETTINGS_STANDARD[INITIAL_WINDOW_SIZE],
     last_stream |-> [i \in {CNO_REMOTE, CNO_LOCAL} |-> 0],
     stream_count |-> [i \in {CNO_REMOTE, CNO_LOCAL} |-> 0],
     streams |-> [i \in 0 .. CNO_STREAM_BUCKETS - 1 |-> <<>>],
     recently_reset |-> [i \in 0 .. CNO_STREAM_RESET_HISTORY - 1 |->
                            [id |-> 0, is_headers |-> FALSE]],
     recently_reset_next |-> 0,
     goaway_sent |-> 0,
     continued_flags |-> {}, continued_stream |-> 0, continued_promise |-> 0,
     continued |-> NoContinued,
     remaining_h1_payload |-> 0,
     disallow_h2_upgrade |-> TRUE, disallow_h2_prior_knowledge |-> FALSE,
     manual_flow_control |-> FALSE]

Init ==
    /\ conn \in {InitConnection(client) : client \in BOOLEAN}
    /\ cbs = <<>>
    /\ out = <<>>
    /\ ret = [code |-> "OK", n |-> 0]
    /\ call = [op |-> "init"]
    /\ hist = [calls |-> 0, credit |-> CNO_SETTINGS_STANDARD[INITIAL_WINDOW_SIZE],
               begun |-> FALSE, started |-> {}, headed |-> {}, tailed |-> {},
               ended |-> {}]

\* begin
BeginAs(versions) ==
    \E version \in versions :
          \E fail \in Fails(Call("cno_connection_made", <<Enter(conn, "none", StaleUb), version>>)) :
             Return(Call("cno_connection_made", <<Enter(conn, fail, StaleUb), version>>),
                    [op |-> "begin", version |-> version, fail |-> fail])

Begin == Ready /\ BeginAs({"h1", "h2"})

\* the frame is a HEADERS frame whose priority block names its own stream
SelfDependent(u) ==
    u.k = "frame" /\ u.type = "HEADERS" /\ CNO_FLAG_PRIORITY \in u.flags /\ u.dep = u.stream

\* consume
ConsumeOf(inputs) ==
    \E data \in inputs :
          \E ub \in IF \/ \E i \in 1 .. Len(data) : SelfDependent(data[i])
                       \/ \E i \in 1 .. Len(conn.buffer) : SelfDependent(conn.buffer[i].u)
                    THEN UbChoices ELSE {StaleUb} :
             \E fail \in Fails(Call("cno_connection_data_received", <<Enter(conn, "none", ub),
                                                            Items(data)>>)) :
                Return(Call("cno_connection_data_received", <<Enter(conn, fail, ub), Items(data)>>),
                       [op |-> "consume", data |-> data, ub |-> ub, fail |-> fail])

Consume == Ready /\ ConsumeOf(Inputs(conn))

\* eof
Eof ==
    /\ Ready
    /\ \E fail \in Fails(Call("cno_connection_lost", <<Enter(conn, "none", StaleUb)>>)) :
          Return(Call("cno_connection_lost", <<Enter(conn, fail, StaleUb)>>),
                 [op |-> "eof", fail |-> fail])

\* shutdown
Shutdown ==
    /\ Ready
    /\ \E fail \in Fails(Call("cno_connection_stop", <<Enter(conn, "none", StaleUb)>>)) :
          Return(Call("cno_connection_stop", <<Enter(conn, fail, StaleUb)>>),
                 [op |-> "shutdown", fail |-> fail])

\* cno_write_message
WriteMessageOf(streams, msgs, finals) ==
    \E stream \in streams, msg \in msgs, final \in finals :
          \E fail \in Fails(Call("cno_write_message", <<Enter(conn, "none", StaleUb), stream, msg,
                                              final>>)) :
             Return(Call("cno_write_message", <<Enter(conn, fail, StaleUb), stream, msg, final>>),
                    [op |-> "write_message", stream |-> stream, msg |-> msg,
                     final |-> final, fail |-> fail])

WriteMessage == Ready /\ WriteMessageOf(1 .. MaxStreamId, Messages(conn), BOOLEAN)

\* cno_write_data
WriteDataOf(streams, lengths, finals) ==
    \E stream \in streams, length \in lengths, final \in finals :
          \E fail \in Fails(Call("cno_write_data", <<Enter(conn, "none", StaleUb), stream, length,
                                           final>>)) :
             Return(Call("cno_write_data", <<Enter(conn, fail, StaleUb), stream, length, final>>),
                    [op |-> "write_data", stream |-> stream, length |-> length,
                     final |-> final, fail |-> fail])

WriteData == Ready /\ WriteDataOf(1 .. MaxStreamId, DataLengths, BOOLEAN)

WriteReset ==
    /\ Ready
    /\ \E stream \in 1 .. MaxStreamId :
          \E fail \in Fails(Call("cno_write_reset", <<Enter(conn, "none", StaleUb), stream,
                                            "CANCEL">>)) :
             Return(Call("cno_write_reset", <<Enter(conn, fail, StaleUb), stream, "CANCEL">>),
                    [op |-> "write_reset", stream |-> stream, fail |-> fail])

WritePush ==
    /\ Ready
    /\ \E stream \in 1 .. MaxStreamId :
          \E fail \in Fails(Call("cno_write_push", <<Enter(conn, "none", StaleUb), stream,
                                           Message(0, "GET", "/", <<>>, 10)>>)) :
             Return(Call("cno_write_push", <<Enter(conn, fail, StaleUb), stream,
                                   Message(0, "GET", "/", <<>>, 10)>>),
                    [op |-> "write_push", stream |-> stream, fail |-> fail])

WritePing ==
    /\ Ready
    /\ \E fail \in Fails(Call("cno_write_ping", <<Enter(conn, "none", StaleUb)>>)) :
          Return(Call("cno_write_ping", <<Enter(conn, fail, StaleUb)>>),
                 [op |-> "write_ping", fail |-> fail])

WriteFrame ==
    /\ Ready
    /\ \E frame \in {OutFrame("HEADERS", {}, 1, 40000, [raw |-> TRUE]),
                     OutFrame("DATA", {CNO_FLAG_END_STREAM}, 1, 3, [raw |-> TRUE])} :
          \E fail \in Fails(Call("cno_write_frame", <<Enter(conn, "none", StaleUb), frame>>)) :
             Return(Call("cno_write_frame", <<Enter(conn, fail, StaleUb), frame>>),
                    [op |-> "write_frame", frame |-> frame, fail |-> fail])

IncreaseFlowWindow ==
    /\ Ready
    /\ \E stream \in 1 .. MaxStreamId :
          \E fail \in Fails(Call("cno_increase_flow_window", <<Enter(conn, "none", StaleUb),
                                                     stream, 3>>)) :
             Return(Call("cno_increase_flow_window", <<Enter(conn, fail, StaleUb), stream, 3>>),
                    [op |-> "increase_flow_window", stream |-> stream, fail |-> fail])

Next ==
    \/ Begin
    \/ Consume
    \/ Eof
    \/ Shutdown
    \/ WriteMessage
    \/ WriteData
    \/ WriteReset
    \/ WritePush
    \/ WritePing
    \/ WriteFrame
    \/ IncreaseFlowWindow

Spec == Init /\ [][Next]_vars

----------------------------------------------------------------------------
(* Longer runs of the calls that move the send windows: the writers of a    *)
(* client and the SETTINGS and WINDOW_UPDATE frames of its peer.            *)

FlowInputs ==
    {<<SettingsFrame(<<>>)>>,
     <<SettingsFrame(<<<<INITIAL_WINDOW_SIZE, W0>>>>)>>,
     <<SettingsFrame(<<<<INITIAL_WINDOW_SIZE, Wide(70000)>>>>)>>,
     <<SettingsFrame(<<>>), WindowUpdateFrame(0, Wide(3))>>,
     <<WindowUpdateFrame(0, Wide(3))>>,
     <<WindowUpdateFrame(1, Wide(100))>>}

FlowBegin == FlowReady /\ BeginAs({"h2"})

FlowConsume == FlowReady /\ conn.state # "CLOSED" /\ ConsumeOf(FlowInputs)

FlowWriteMessage ==
    FlowReady /\ conn.state # "CLOSED" /\
    WriteMessageOf({1, 3}, {Message(0, "GET", "/", <<>>, 10)}, {FALSE})

FlowWriteData ==
    FlowReady /\ conn.state # "CLOSED" /\ WriteDataOf({1, 3}, DataLengths, BOOLEAN)

InitFlow ==
    /\ conn = InitConnection(TRUE)
    /\ cbs = <<>>
    /\ out = <<>>
    /\ ret = [code |-> "OK", n |-> 0]
    /\ call = [op |-> "init"]
    /\ hist = [calls |-> 0, credit |-> CNO_SETTINGS_STANDARD[INITIAL_WINDOW_SIZE],
               begun |-> FALSE, started |-> {}, headed |-> {}, tailed |-> {},
               ended |-> {}]

NextFlow ==
    \/ FlowBegin
    \/ FlowConsume
    \/ FlowWriteMessage
    \/ FlowWriteData

SpecFlow == InitFlow /\ [][NextFlow]_vars

(***************************************************************************)
(* The order of the callbacks.  cbs holds the callbacks of the last call   *)
(* in the order they fired, hist those of the calls before it.             *)
(***************************************************************************)

\* the callback names the stream e.id
NamesId(e) ==
    \/ e.cb \in {"on_message_head", "on_message_data", "on_message_tail",
                 "on_message_push", "on_stream_end"}
    \/ e.cb = "on_flow_increase" /\ e.id # 0

\* cb was fired for id before the i-th callback of the last call
FiredBefore(cb, past, id, i) ==
    id \in past \/ \E j \in 1 .. i - 1 : cbs[j].cb = cb /\ cbs[j].id = id

\* C1: every callback that names a stream id is fired after on_stream_start
\* was fired for that id.
C1_StartFirst ==
    \A i \in 1 .. Len(cbs) :
        NamesId(cbs[i]) => FiredBefore("on_stream_start", hist.started, cbs[i].id, i)

\* C2: on_message_data and on_message_tail are fired for a stream only after
\* on_message_head was fired for it.
C2_HeadFirst ==
    \A i \in 1 .. Len(cbs) :
        cbs[i].cb \in {"on_message_data", "on_message_tail"}
            => FiredBefore("on_message_head", hist.headed, cbs[i].id, i)

\* C3: on_message_tail is never fired for a stream after on_stream_end was
\* fired for it.
C3_TailBeforeEnd ==
    \A i \in 1 .. Len(cbs) :
        cbs[i].cb = "on_message_tail"
            => ~FiredBefore("on_stream_end", hist.ended, cbs[i].id, i)

----------------------------------------------------------------------------
(* Fragmentation: the same octets given to consume at once, and one octet   *)
(* per call.  conn, cbs, out and ret are those of the run that gets one     *)
(* octet per call, cbs and out collected over its calls; hist.whole holds   *)
(* the result of the single call.  The embedder stops at the first error.   *)

ContinuationFrame(stream, flags, hdr) ==
    [Frame("CONTINUATION", flags, stream, 5) EXCEPT !.hdr = hdr]

\* well-formed octets of the peer of a server and of the peer of a client
FragInputs(client) ==
    IF client
    THEN {<<SettingsFrame(<<>>), Frame("SETTINGS", {CNO_FLAG_ACK}, 0, 0),
            Frame("PING", {}, 0, 8)>>,
          <<SettingsFrame(<<<<INITIAL_WINDOW_SIZE, Wide(70000)>>>>),
            WindowUpdateFrame(0, Wide(3)), GoawayFrame("NO_ERROR")>>}
    ELSE {<<PrefaceUnit, SettingsFrame(<<>>),
            HeadersFrame(1, {CNO_FLAG_END_HEADERS}, RequestHeaders),
            Frame("DATA", {CNO_FLAG_END_STREAM}, 1, 3)>>,
          <<PrefaceUnit, SettingsFrame(<<<<MAX_FRAME_SIZE, Wide(20000)>>>>),
            Frame("PING", {}, 0, 8), WindowUpdateFrame(0, Wide(3))>>,
          <<PrefaceUnit, SettingsFrame(<<>>),
            HeadersFrame(1, {CNO_FLAG_END_STREAM}, RequestHeaders),
            ContinuationFrame(1, {CNO_FLAG_END_HEADERS}, TrailerHeaders),
            HeadersFrame(3, {CNO_FLAG_END_HEADERS}, RequestHeaders)>>,
          <<PrefaceUnit, SettingsFrame(<<>>),
            HeadersFrame(1, {CNO_FLAG_END_HEADERS, CNO_FLAG_END_STREAM}, RequestHeaders),
            GoawayFrame("NO_ERROR"), Frame("PING", {}, 0, 8)>>}

RECURSIVE TotalSize(_)
TotalSize(data) ==
    IF data = <<>> THEN 0 ELSE UnitSize(Head(data)) + TotalSize(Tail(data))

RECURSIVE ByteItem(_, _)
\* the octet at offset pos of data
ByteItem(data, pos) ==
    IF pos < UnitSize(Head(data)) THEN [u |-> Head(data), from |-> pos, to |-> pos + 1]
    ELSE ByteItem(Tail(data), pos - UnitSize(Head(data)))

InitFrag ==
    /\ conn \in {InitConnection(client) : client \in BOOLEAN}
    /\ cbs = <<>>
    /\ out = <<>>
    /\ ret = [code |-> "OK", n |-> 0]
    /\ call = [op |-> "init"]
    /\ hist = [whole |-> <<>>]

\* begin, and the choice of the octets the peer will send
FragBegin ==
    /\ call.op = "init"
    /\ \E version \in IF conn.client THEN {"h2"} ELSE {"h1", "h2"},
          data \in FragInputs(conn.client) :
          LET r == Call("cno_connection_made", <<Enter(conn, "none", StaleUb), version>>)
          IN  /\ conn' = r.c
              /\ cbs' = r.cbs
              /\ out' = r.out
              /\ ret' = [code |-> r.ret, n |-> 0]
              /\ call' = [op |-> "begin", version |-> version, data |-> data, pos |-> 0]
              /\ UNCHANGED hist

\* consume of all the octets in one call
FragWhole ==
    /\ call.op = "begin"
    /\ LET r == Call("cno_connection_data_received",
                     <<Enter(conn, "none", StaleUb), Items(call.data)>>)
       IN  hist' = [whole |-> <<[c |-> r.c, cbs |-> cbs \o r.cbs, out |-> out \o r.out,
                                 ret |-> r.ret]>>]
    /\ call' = [call EXCEPT !.op = "whole"]
    /\ UNCHANGED <<conn, cbs, out, ret>>

\* consume of the next octet
FragByte ==
    /\ call.op \in {"whole", "byte"}
    /\ ret.code = "OK"
    /\ call.pos < TotalSize(call.data)
    /\ LET r == Call("cno_connection_data_received",
                     <<Enter(conn, "none", StaleUb), <<ByteItem(call.data, call.pos)>>>>)
       IN  /\ conn' = r.c
           /\ cbs' = cbs \o r.cbs
           /\ out' = out \o r.out
           /\ ret' = [code |-> r.ret, n |-> 0]
    /\ call' = [call EXCEPT !.op = "byte", !.pos = @ + 1]
    /\ UNCHANGED hist

NextFrag ==
    \/ FragBegin
    \/ FragWhole
    \/ FragByte

SpecFrag == InitFrag /\ [][NextFrag]_vars

\* the run of one octet per call has come to its end: every octet was given,
\* or a call failed
FragDone ==
    /\ call.op \in {"whole", "byte"}
    /\ call.pos = TotalSize(call.data) \/ ret.code # "OK"

\* C4: well-formed HTTP/2 octets given to consume one at a time produce the
\* callbacks, the frames written, the result and the connection and stream
\* state that a single consume of them produces (when consume fails, up to the
\* octets that the run stopped by the failure never handed over).
C4_Fragmentation ==
    FragDone =>
       LET w == hist.whole[1]
       IN  /\ cbs = w.cbs
           /\ out = w.out
           /\ ret.code = w.ret
           /\ IF ret.code = "OK" THEN conn = w.c
              ELSE [conn EXCEPT !.buffer = <<>>] = [w.c EXCEPT !.buffer = <<>>]

\* a request with a body has arrived one octet per call
C4_Witness ==
    /\ FragDone /\ ret.code = "OK" /\ call.pos = TotalSize(call.data) /\ call.pos > 50
    /\ \E i \in 1 .. Len(cbs) : cbs[i].cb = "on_message_data"
    /\ \E i \in 1 .. Len(cbs) : cbs[i].cb = "on_message_tail"
    /\ Len(out) >= 2

----------------------------------------------------------------------------
(* The frame splitter on its own: cno_write_frame applied once to frames of *)
(* every splittable type, flag set and size, under two limits of the peer.  *)

SplitSizes == {100, 16385, 32768, 40000}
SplitLimits == {16384, 20000}

SplitFrames ==
    {OutFrame(type, flags, 1, size, [raw |-> TRUE]) :
        type \in {"DATA", "HEADERS", "PUSH_PROMISE"},
        flags \in SUBSET {CNO_FLAG_END_STREAM, CNO_FLAG_END_HEADERS, CNO_FLAG_PRIORITY},
        size \in SplitSizes}
    \cup {OutFrame("HEADERS", {CNO_FLAG_END_HEADERS, CNO_FLAG_PADDED}, 1, 40000,
                   [raw |-> TRUE]),
          OutFrame("SETTINGS", {}, 0, 40002, [raw |-> TRUE])}

\* an HTTP/2 connection whose peer has announced max_frame_size = limit
SplitConnection(limit) ==
    [InitConnection(TRUE) EXCEPT !.mode = "h2", !.state = "H2_FRAME",
                                 !.settings[CNO_REMOTE][MAX_FRAME_SIZE] = Wide(limit)]

InitSplit ==
    /\ conn \in {SplitConnection(limit) : limit \in SplitLimits}
    /\ cbs = <<>>
    /\ out = <<>>
    /\ ret = [code |-> "OK", n |-> 0]
    /\ call \in {[op |-> "frame", frame |-> frame, fail |-> fail] :
                    frame \in SplitFrames, fail \in {"none", "on_writev"}}
    /\ hist = [calls |-> 0, credit |-> CNO_SETTINGS_STANDARD[INITIAL_WINDOW_SIZE],
               begun |-> TRUE, started |-> {}, headed |-> {}, tailed |-> {},
               ended |-> {}]

\* cno_write_frame
SplitWrite ==
    /\ call.op = "frame"
    /\ Return(Call("cno_write_frame", <<Enter(conn, call.fail, StaleUb), call.frame>>),
              [op |-> "write_frame", frame |-> call.frame, fail |-> call.fail])

NextSplit == SplitWrite

SpecSplit == InitSplit /\ [][NextSplit]_vars

\* cno_write_frame has written an unpadded DATA, HEADERS or PUSH_PROMISE frame
\* bigger than the peer's max_frame_size on an HTTP/2 connection
WasSplit ==
    /\ call.op = "write_frame" /\ call.fail = "none" /\ conn.mode = "h2"
    /\ call.frame.type \in {"DATA", "HEADERS", "PUSH_PROMISE"}
    /\ CNO_FLAG_PADDED \notin call.frame.flags
    /\ call.frame.size > Narrow(conn.settings[CNO_REMOTE][MAX_FRAME_SIZE])

\* the frames written are the payload of the original cut in order, and their
\* types and their flags other than END_HEADERS are those of a split
SplitShape ==
    LET f == call.frame
        n == Len(out)
    IN  /\ ret.code = "OK" /\ n >= 2
        /\ out[1].data = f.data
        /\ \A i \in 1 .. n - 1 : out[i + 1].data = out[i].data + out[i].size
        /\ out[n].data + out[n].size = f.data + f.size
        /\ \A i \in 1 .. n :
              /\ out[i].size > 0
              /\ out[i].size <= Narrow(conn.settings[CNO_REMOTE][MAX_FRAME_SIZE])
              /\ out[i].stream = f.stream
        /\ f.type = "DATA" =>
              \A i \in 1 .. n :
                 /\ out[i].type = "DATA"
                 /\ CNO_FLAG_END_STREAM \in out[i].flags
                       <=> (i = n /\ CNO_FLAG_END_STREAM \in f.flags)
        /\ f.type # "DATA" =>
              /\ out[1].type = f.type
              /\ out[1].flags = f.flags \ {CNO_FLAG_END_HEADERS}
              /\ \A i \in 2 .. n :
                    /\ out[i].type = "CONTINUATION"
                    /\ CNO_FLAG_PRIORITY \notin out[i].flags
                    /\ CNO_FLAG_END_STREAM \notin out[i].flags

----------------------------------------------------------------------------
(* Stream ids.                                                              *)

\* the parity of the ids the side opens: local is CNO_LOCAL or CNO_REMOTE
SideParity(c, local) == IF (local = CNO_LOCAL) = c.client THEN 1 ELSE 0

\* the streams of the table
TableIds(c) ==
    {c.streams[b][i].id : <<b, i>> \in
        {x \in (0 .. CNO_STREAM_BUCKETS - 1) \X (1 .. MaxStreamId + 1) :
            x[2] <= Len(c.streams[x[1]])}}

\* the call opens streams of the right parity only, each with an id above
\* last_stream of its side, and the table holds such streams only
OpensInOrder ==
    /\ \A i \in 1 .. Len(cbs') :
          cbs'[i].cb = "on_stream_start" =>
             /\ cbs'[i].id % 2 = SideParity(conn, cbs'[i].arg.local)
             /\ cbs'[i].id > conn.last_stream[cbs'[i].arg.local]
             /\ \A j \in 1 .. i - 1 :
                   (cbs'[j].cb = "on_stream_start" /\ cbs'[j].arg.local = cbs'[i].arg.local)
                       => cbs'[j].id < cbs'[i].id
    /\ \A id \in TableIds(conn') :
          /\ id # 0
          /\ id <= conn'.last_stream[IF id % 2 = SideParity(conn', CNO_LOCAL)
                                     THEN CNO_LOCAL ELSE CNO_REMOTE]
          /\ id \in TableIds(conn) \/ id \in CallbackIds(cbs', "on_stream_start")

\* write_message on a client for a stream that is not in the table asks for a
\* new stream
AsksToOpen ==
    /\ call'.op = "write_message" /\ conn.client /\ conn.state # "CLOSED"
    /\ ~HasStream(conn, call'.stream)

\* C5: a stream is opened only with the parity of its side and an id strictly
\* greater than last_stream of that side, the table holds only streams opened
\* so, and a request to open a stream with the wrong parity or a non-greater
\* id fails with INVALID_STREAM and creates no stream.
C5_ParityMonotonic ==
    [][/\ OpensInOrder
       /\ (AsksToOpen /\ (call'.stream % 2 # 1
                          \/ call'.stream <= conn.last_stream[CNO_LOCAL]))
             => /\ ret'.code = "INVALID_STREAM"
                /\ conn'.streams = conn.streams
                /\ CallbackIds(cbs', "on_stream_start") = {}]_vars

\* a client that had opened a stream was refused a stream with an even id
C5_Witness ==
    /\ call.op = "write_message" /\ conn.client /\ call.stream % 2 = 0
    /\ ret.code = "INVALID_STREAM"
    /\ hist.started # {}
    /\ TableIds(conn) # {}

----------------------------------------------------------------------------
(* Flow control.                                                            *)

\* cno_write_data returned a count for a stream of an HTTP/2 connection
WroteData ==
    /\ call'.op = "write_data" /\ ret'.code = "OK"
    /\ conn.mode = "h2" /\ conn.state # "CLOSED" /\ HasStream(conn, call'.stream)

\* the octets write_data may take: the least of the stream's window, the
\* connection's window and the length asked for, and 0 when that is negative
Granted(c, stream, length) ==
    LET sw == wAdd(cno_stream_find(c, stream).window_send,
                   c.settings[CNO_REMOTE][INITIAL_WINDOW_SIZE])
        least == wMin(wMin(sw, c.window_send), Wide(length))
    IN  IF wLt(least, W0) THEN 0 ELSE Narrow(least)

C7_WindowBound == wLe(conn.window_send, INT31_MAX)

----------------------------------------------------------------------------
(* Shutdown.                                                                *)

\* a second cno_connection_stop right after one that returned CNO_OK, with a
\* transport that accepts what is written
StopsAgain ==
    /\ call.op = "shutdown" /\ ret.code = "OK"
    /\ call'.op = "shutdown" /\ call'.fail = "none"

\* C9: the second of two shutdown calls in a row returns OK and leaves the
\* connection state and the bytes emitted to the peer as they were after the
\* first call: it emits nothing.
C9_StopTwice ==
    [][StopsAgain => (ret'.code = "OK" /\ conn' = conn /\ out' = <<>>)]_vars

\* C9, amended: the second of two shutdown calls in a row returns OK and
\* leaves the connection state as it was after the first call; it emits what
\* the first call emitted once more (in HTTP/2 a GOAWAY frame identical to the
\* first one, in HTTP/1 nothing).
C9_StopTwiceAmended ==
    [][StopsAgain => (ret'.code = "OK" /\ conn' = conn /\ out' = out)]_vars

\* the second shutdown of an HTTP/2 connection that has seen a stream of the
\* peer has returned
C9_Witness ==
    /\ call.op = "shutdown" /\ call.fail = "none" /\ ret.code = "OK"
    /\ conn.mode = "h2" /\ conn.goaway_sent # 0
    /\ Len(out) = 1 /\ out[1].type = "GOAWAY" /\ out[1].arg.last = conn.goaway_sent
    /\ hist.calls = 4

----------------------------------------------------------------------------
(* The CLOSED state.                                                        *)

\* the connection was begun and is back in CNO_STATE_CLOSED
ClosedAgain == hist.begun /\ conn.state = "CLOSED"

----------------------------------------------------------------------------
(* HTTP/2 on the wire: a connection that is configured, begun in h2 mode    *)
(* and then fed frames one per consume call, well-formed and malformed,     *)
(* after a first consume that carries the start of the peer's stream.  The  *)
(* embedder stops at the first failure of begin, consume or a callback.     *)
(* call.path holds the values the call assigned to conn->state.             *)

MaxWireCalls == 5

EH == {CNO_FLAG_END_HEADERS}
EHS == {CNO_FLAG_END_HEADERS, CNO_FLAG_END_STREAM}

\* header lists that break one rule of cno_frame_handle_message each
BadRequestLists ==
    {<<Hdr(":method", "GET"), Hdr("x-a", "1"), Hdr(":scheme", "http"), Hdr(":path", "/")>>,
     <<Hdr(":method", "GET"), Hdr(":scheme", "http"), Hdr(":path", "/"), Hdr(":path", "/")>>,
     <<Hdr(":method", "GET"), Hdr(":scheme", "http"), Hdr(":path", "/"), Hdr(":unknown", "1")>>,
     <<Hdr(":method", "GET"), Hdr(":scheme", "http"), Hdr(":path", "/"), Hdr("X-A", "1")>>,
     <<Hdr(":method", "GET"), Hdr(":scheme", "http"), Hdr(":path", "/"),
       Hdr("connection", "close")>>,
     <<Hdr(":method", "GET"), Hdr(":scheme", "http"), Hdr(":path", "/"), Hdr("te", "gzip")>>,
     <<Hdr(":method", "GET"), Hdr(":scheme", "http"), Hdr(":path", "/"),
       Hdr("content-length", "abc")>>,
     <<Hdr(":method", "GET"), Hdr(":scheme", "http")>>}

BadResponseLists ==
    {<<Hdr(":status", "200"), Hdr(":status", "200")>>,
     <<Hdr(":status", "200"), Hdr(":status", "0")>>,
     <<Hdr(":status", "200"), Hdr(":path", "/")>>,
     <<Hdr(":status", "200"), Hdr("X-A", "1")>>,
     <<Hdr(":status", "200"), Hdr("connection", "close")>>,
     <<Hdr("x-a", "1")>>}

\* trailers that break a rule
BadTrailerLists ==
    {<<Hdr(":status", "200")>>, <<Hdr("X-A", "1")>>, <<Hdr("te", "gzip")>>,
     <<Hdr("content-length", "abc")>>}

\* 2^31
INT31_OVER == <<32768, 0>>

\* frames that are malformed as frames
BadFrames ==
    {WindowUpdateFrame(0, W0),
     WindowUpdateFrame(1, INT31_OVER),
     [WindowUpdateFrame(0, Wide(1)) EXCEPT !.len = 5],
     [SettingsFrame(<<>>) EXCEPT !.stream = 1],
     Frame("SETTINGS", {CNO_FLAG_ACK}, 0, 6),
     Frame("SETTINGS", {}, 0, 5),
     SettingsFrame(<<<<ENABLE_PUSH, Wide(2)>>>>),
     SettingsFrame(<<<<INITIAL_WINDOW_SIZE, INT31_OVER>>>>),
     SettingsFrame(<<<<MAX_FRAME_SIZE, Wide(100)>>>>),
     Frame("PING", {}, 1, 8), Frame("PING", {}, 0, 7),
     [Frame("DATA", {CNO_FLAG_PADDED}, 1, 3) EXCEPT !.pad = 5],
     Frame("DATA", {}, 1, 16385), Frame("UNKNOWN", {}, 0, 16385),
     Frame("CONTINUATION", EH, 1, 5),
     Frame("RST_STREAM", {}, 1, 5),
     [GoawayFrame("NO_ERROR") EXCEPT !.stream = 1],
     GoawayFrame("INTERNAL_ERROR")}

\* frames that are well formed as frames
GoodFrames ==
    {SettingsFrame(<<>>), SettingsFrame(<<<<INITIAL_WINDOW_SIZE, Wide(70000)>>>>),
     SettingsFrame(<<<<MAX_CONCURRENT_STREAMS, Wide(1)>>>>),
     Frame("DATA", {}, 1, 3), Frame("DATA", {CNO_FLAG_END_STREAM}, 1, 3),
     WindowUpdateFrame(1, Wide(1)), WindowUpdateFrame(1, INT31_MAX),
     WindowUpdateFrame(3, INT31_MAX),
     Frame("RST_STREAM", {}, 1, 4), Frame("PING", {}, 0, 8)}

\* what the peer of a server and the peer of a client send on streams
WireFrames(client) ==
    GoodFrames \cup BadFrames \cup
    (IF client
     THEN {HeadersFrame(1, f, ResponseHeaders) : f \in {EH, EHS}}
          \cup {HeadersFrame(1, EH, l) : l \in BadResponseLists}
          \cup {PushPromiseFrame(1, 2), PushPromiseFrame(1, 4), PushPromiseFrame(1, 3)}
     ELSE {HeadersFrame(1, EH, RequestHeaders), HeadersFrame(3, EH, RequestHeaders),
           HeadersFrame(2, EH, RequestHeaders),
           HeadersFrame(1, EHS, TrailerHeaders)}
          \cup {HeadersFrame(3, EH, l) : l \in BadRequestLists}
          \cup {HeadersFrame(1, EHS, l) : l \in BadTrailerLists})

\* the first octets of the peer of a server, and of the peer of a client
WireStarts(client) ==
    IF client
    THEN {<<SettingsFrame(<<>>)>>, <<SettingsFrame(<<<<MAX_CONCURRENT_STREAMS, Wide(1)>>>>)>>,
          <<SettingsFrame(<<>>), PushPromiseFrame(1, 2)>>,
          <<SettingsFrame(<<<<ENABLE_PUSH, Wide(2)>>>>)>>,
          <<Frame("PING", {}, 0, 8)>>}
    ELSE {<<PrefaceUnit, SettingsFrame(<<>>)>>,
          <<PrefaceUnit, SettingsFrame(<<<<INITIAL_WINDOW_SIZE, Wide(70000)>>>>)>>,
          <<PrefaceUnit, SettingsFrame(<<<<ENABLE_PUSH, Wide(1)>>,
                                         <<MAX_FRAME_SIZE, Wide(20000)>>>>)>>,
          <<PrefaceUnit, SettingsFrame(<<<<ENABLE_PUSH, Wide(2)>>>>)>>,
          <<PrefaceUnit>>,
          <<PrefaceUnit, SettingsFrame(<<>>),
            HeadersFrame(1, EH, RequestHeaders)>>,
          <<PrefaceUnit, SettingsFrame(<<>>),
            HeadersFrame(1, EH, RequestHeaders), Frame("DATA", {}, 1, 0),
            HeadersFrame(1, EHS, ResponseHeaders)>>,
          <<PrefaceUnit, SettingsFrame(<<>>),
            HeadersFrame(1, EH, <<Hdr(":method", "GET"), Hdr(":scheme", "http")>>)>>,
          <<SettingsFrame(<<>>)>>,
          <<PrefaceUnit, Frame("PING", {}, 0, 8)>>,
          <<PrefaceUnit, Frame("SETTINGS", {CNO_FLAG_ACK}, 0, 0)>>}

WireInputs(c) ==
    IF c.state = "H2_FRAME"
    THEN {<<u>> : u \in WireFrames(c.client)}
         \cup {<<WindowUpdateFrame(1, INT31_MAX), Frame("PING", {}, 0, 8)>>}
         \cup (IF c.client
               THEN {<<PushPromiseFrame(1, 4), Frame("UNKNOWN", {}, 0, 16385)>>}
               ELSE {<<HeadersFrame(3, EH, RequestHeaders), Frame("DATA", {}, 3, 16385)>>})
    ELSE WireStarts(c.client)

\* the settings an embedder configures
WireConfigs ==
    {[CNO_SETTINGS_INITIAL EXCEPT ![MAX_CONCURRENT_STREAMS] = Wide(1)],
     [CNO_SETTINGS_INITIAL EXCEPT ![ENABLE_PUSH] = W0],
     [CNO_SETTINGS_INITIAL EXCEPT ![ENABLE_PUSH] = Wide(2)],
     [CNO_SETTINGS_INITIAL EXCEPT ![MAX_FRAME_SIZE] = Wide(100)],
     [CNO_SETTINGS_INITIAL EXCEPT ![INITIAL_WINDOW_SIZE] = INT31_OVER]}

WireReady ==
    /\ hist.calls < MaxWireCalls
    /\ ret.code \notin {"SIGSEGV", "CALLBACK"}
    /\ call.op \in {"begin", "consume"} => ret.code = "OK"

\* cno_connection_set_config before begin, or on the running connection
WireConfigure ==
    /\ WireReady
    /\ call.op \in {"init", "consume"}
    /\ \E settings \in WireConfigs :
          \E fail \in Fails(Call("cno_connection_set_config",
                                 <<Enter(conn, "none", StaleUb), settings>>)) :
             LET r == Call("cno_connection_set_config",
                           <<Enter(conn, fail, StaleUb), settings>>)
             IN  Return(r, [op |-> "configure", settings |-> settings, fail |-> fail,
                            path |-> r.path])

WireBegin ==
    /\ WireReady
    /\ call.op \in {"init", "configure"}
    /\ \E fail \in Fails(Call("cno_connection_made", <<Enter(conn, "none", StaleUb), "h2">>)) :
          LET r == Call("cno_connection_made", <<Enter(conn, fail, StaleUb), "h2">>)
          IN  Return(r, [op |-> "begin", version |-> "h2", fail |-> fail, path |-> r.path])

WireConsume ==
    /\ WireReady
    /\ conn.state # "CLOSED"
    /\ \E data \in WireInputs(conn) :
          \E fail \in Fails(Call("cno_connection_data_received",
                                 <<Enter(conn, "none", StaleUb), Items(data)>>)) :
             LET r == Call("cno_connection_data_received",
                           <<Enter(conn, fail, StaleUb), Items(data)>>)
             IN  Return(r, [op |-> "consume", data |-> data, fail |-> fail,
                            path |-> r.path])

\* a client opens streams
WireWriteMessage ==
    /\ WireReady
    /\ conn.state # "CLOSED" /\ conn.client
    /\ \E stream \in {1, 2, 3}, final \in BOOLEAN :
          \E fail \in Fails(Call("cno_write_message",
                                 <<Enter(conn, "none", StaleUb), stream,
                                   Message(0, "GET", "/", <<>>, 10), final>>)) :
             LET r == Call("cno_write_message",
                           <<Enter(conn, fail, StaleUb), stream,
                             Message(0, "GET", "/", <<>>, 10), final>>)
             IN  Return(r, [op |-> "write_message", stream |-> stream, final |-> final,
                            fail |-> fail, path |-> r.path])

\* cno_connection_stop: the embedder announces that it takes no more streams
WireShutdown ==
    /\ WireReady
    /\ conn.state = "H2_FRAME" /\ call.op = "consume"
    /\ \E fail \in Fails(Call("cno_connection_stop", <<Enter(conn, "none", StaleUb)>>)) :
          LET r == Call("cno_connection_stop", <<Enter(conn, fail, StaleUb)>>)
          IN  Return(r, [op |-> "shutdown", fail |-> fail, path |-> r.path])

NextWire ==
    \/ WireConfigure
    \/ WireBegin
    \/ WireConsume
    \/ WireWriteMessage
    \/ WireShutdown

SpecWire == Init /\ [][NextWire]_vars

\* the names of the callbacks fired, in order
CbNames(cs) == [i \in 1 .. Len(cs) |-> cs[i].cb]

\* the entries of a SETTINGS frame are within the bounds the handler enforces
SettingsValid(u) ==
    \A i \in 1 .. Len(u.entries) :
        LET e == u.entries[i]
        IN  /\ e[1] = ENABLE_PUSH => wLe(e[2], Wide(1))
            /\ e[1] = INITIAL_WINDOW_SIZE => wLe(e[2], INT31_MAX)
            /\ e[1] = MAX_FRAME_SIZE => wLe(Wide(16384), e[2]) /\ wLe(e[2], Wide(16777215))

\* a server begun in h2 mode is given the preface and a SETTINGS frame
Handshake ==
    /\ ~conn.client /\ call.op = "begin" /\ ret.code = "OK"
    /\ call'.op = "consume" /\ call'.fail = "none"
    /\ Len(call'.data) = 2
    /\ call'.data[1] = PrefaceUnit
    /\ call'.data[2].type = "SETTINGS" /\ call'.data[2].flags = {}
    /\ call'.data[2].stream = 0 /\ call'.data[2].len = 6 * Len(call'.data[2].entries)

\* begin wrote one SETTINGS frame with the settings that differ from STANDARD,
\* consume wrote the acknowledgement, and the states were entered in order
HandshakeDone ==
    /\ Len(out) = 1 /\ out[1].type = "SETTINGS" /\ out[1].flags = {} /\ out[1].stream = 0
    /\ \A i \in 1 .. CNO_SETTINGS_UNDEFINED - 1 :
          CNO_SETTINGS_STANDARD[i] # conn.settings[CNO_LOCAL][i]
             <=> \E j \in 1 .. Len(out[1].arg.entries) :
                    out[1].arg.entries[j] = <<i, conn.settings[CNO_LOCAL][i]>>
    /\ out[1].size = 6 * Cardinality({i \in 1 .. CNO_SETTINGS_UNDEFINED - 1 :
                         CNO_SETTINGS_STANDARD[i] # conn.settings[CNO_LOCAL][i]})
    /\ Len(out') = 1 /\ out'[1].type = "SETTINGS" /\ out'[1].flags = {CNO_FLAG_ACK}
    /\ out'[1].stream = 0 /\ out'[1].size = 0
    /\ ret'.code = "OK" /\ conn'.state = "H2_FRAME"
    /\ call.path = <<"H2_INIT", "H2_PREFACE">>
    /\ call'.path = <<"H2_SETTINGS", "H2_FRAME", "H2_FRAME">>
    /\ cbs = <<>>

\* C11: a server begun in h2 mode that consumes the client preface and a
\* SETTINGS frame (no ACK, stream 0) has written its own SETTINGS (what differs
\* from STANDARD) and then a SETTINGS ACK, is in H2_FRAME after H2_INIT,
\* H2_PREFACE and H2_SETTINGS, and has fired no callback but on_settings.
C11_Handshake ==
    [][Handshake => HandshakeDone /\ \A i \in 1 .. Len(cbs') : cbs'[i].cb = "on_settings"]_vars

\* C11 as the code has it: the entries of the SETTINGS frame are within bounds,
\* and the callbacks are the on_frame hook, on_flow_increase(0) when the frame
\* raises the initial window, and on_settings, in this order.
C11_HandshakeAmended ==
    [][Handshake /\ SettingsValid(call'.data[2]) =>
          /\ HandshakeDone
          /\ CbNames(cbs') =
                <<"on_frame">>
                \o (IF wLt(conn.settings[CNO_REMOTE][INITIAL_WINDOW_SIZE],
                           conn'.settings[CNO_REMOTE][INITIAL_WINDOW_SIZE])
                    THEN <<"on_flow_increase">> ELSE <<>>)
                \o <<"on_settings">>
          /\ \A i \in 1 .. Len(cbs') : cbs'[i].id = 0]_vars

\* a configured server has consumed the preface and a SETTINGS frame that
\* raises the initial window
C11_Witness ==
    /\ ~conn.client /\ call.op = "consume" /\ call.fail = "none"
    /\ call.data = <<PrefaceUnit, SettingsFrame(<<<<INITIAL_WINDOW_SIZE, Wide(70000)>>>>)>>
    /\ conn.settings[CNO_LOCAL][MAX_CONCURRENT_STREAMS] = Wide(1)
    /\ conn.state = "H2_FRAME" /\ ret.code = "OK"
    /\ CbNames(cbs) = <<"on_frame", "on_flow_increase", "on_settings">>

----------------------------------------------------------------------------
(* HTTP/1 exchanges: a client that writes a request and is given the        *)
(* response, whole or in pieces, and a server that is given requests, the   *)
(* h2c upgrade among them.                                                  *)

MaxH1Calls == 4

CRLF == <<Octet("\r"), Octet("\n")>>

Octets(chars) == [i \in 1 .. Len(chars) |-> Octet(chars[i])]

\* a chunk as the peer sends it: the size in hexadecimal, CRLF, the payload, CRLF
ChunkOf(payload) ==
    <<Octet(HexDigits[Len(payload) + 1])>> \o CRLF \o Octets(payload) \o CRLF

RECURSIVE ChunkedBody(_)
\* the chunks and the terminating zero chunk
ChunkedBody(chunks) ==
    IF chunks = <<>> THEN <<Octet("0")>> \o CRLF \o CRLF
    ELSE ChunkOf(Head(chunks)) \o ChunkedBody(Tail(chunks))

LongPayload == <<"0", "1", "2", "3", "4", "5", "6", "7", "8", "9">>

\* the payloads of the chunks of a response
ChunkLists ==
    {<<>>, <<<<"h", "i">>>>, <<<<"h", "i">>, <<"x">>>>, <<LongPayload>>,
     <<<<"x">>, LongPayload>>}

ChunkedHead(code) == H1Head(code, "", "", <<Hdr("transfer-encoding", "chunked")>>)

ChunkedResponse(code, chunks) == <<ChunkedHead(code)>> \o ChunkedBody(chunks)

UpgradeRequests ==
    {<<H1Head(0, "GET", "/", <<Hdr("host", "a"), Hdr("upgrade", "h2c"),
                                Hdr("http2-settings", "")>>)>>,
     <<H1Head(0, "GET", "/", <<Hdr("Upgrade", "h2c"), Hdr("x-a", "1")>>)>>,
     <<H1Head(0, "POST", "/", <<Hdr("upgrade", "h2c"), Hdr("content-length", "3")>>),
       Octet("a"), Octet("b"), Octet("c")>>,
     <<H1Head(0, "POST", "/", <<Hdr("upgrade", "h2c"), Hdr("content-length", "3")>>)>>,
     <<H1Head(0, "GET", "/", <<Hdr("upgrade", "h2c")>>), PrefaceUnit, SettingsFrame(<<>>)>>,
     <<H1Head(0, "GET", "/", <<Hdr("upgrade", "websocket"), Hdr("upgrade", "h2c")>>)>>}

\* what one consume call delivers to an HTTP/1 connection
H1Inputs(c) ==
    CASE c.state = "H1_HEAD" /\ c.client ->
           {ChunkedResponse(code, chunks) : code \in {200, 100}, chunks \in ChunkLists}
           \cup {<<ChunkedHead(200)>>,
                 <<H1Head(200, "", "", <<Hdr("content-length", "3")>>),
                   Octet("a"), Octet("b"), Octet("c")>>}
      [] c.state = "H1_HEAD" /\ ~c.client ->
           UpgradeRequests
           \cup {<<H1Head(0, "GET", "/", <<Hdr("host", "a")>>)>>,
                 <<H1Head(0, "GET", "/", <<Hdr("upgrade", "websocket")>>)>>}
      [] c.state \in {"H1_BODY", "H1_TAIL", "H1_CHUNK", "H1_CHUNK_BODY", "H1_CHUNK_TAIL",
                      "H1_TRAILERS"} ->
           {ChunkedBody(chunks) : chunks \in ChunkLists}
           \cup {<<Octet("a"), Octet("b"), Octet("c")>>, <<Octet("2")>> \o CRLF}
      [] OTHER ->
           {<<PrefaceUnit, SettingsFrame(<<>>)>>, <<PrefaceUnit>>, <<SettingsFrame(<<>>)>>,
            <<HeadersFrame(3, {CNO_FLAG_END_HEADERS, CNO_FLAG_END_STREAM}, RequestHeaders)>>}

H1Ready ==
    /\ hist.calls < MaxH1Calls
    /\ ret.code \notin {"SIGSEGV", "CALLBACK"}
    /\ call.op \in {"begin", "consume"} => ret.code = "OK"

\* cno_connection_init, and the embedder's choice of the flag that allows the
\* h2c upgrade
InitH1 ==
    /\ conn \in {[InitConnection(client) EXCEPT !.disallow_h2_upgrade = disallow] :
                    client \in BOOLEAN, disallow \in BOOLEAN}
    /\ cbs = <<>>
    /\ out = <<>>
    /\ ret = [code |-> "OK", n |-> 0]
    /\ call = [op |-> "init"]
    /\ hist = [calls |-> 0, credit |-> CNO_SETTINGS_STANDARD[INITIAL_WINDOW_SIZE],
               begun |-> FALSE, started |-> {}, headed |-> {}, tailed |-> {},
               ended |-> {}]

H1Begin ==
    /\ H1Ready
    /\ call.op = "init"
    /\ \E fail \in Fails(Call("cno_connection_made", <<Enter(conn, "none", StaleUb), "h1">>)) :
          LET r == Call("cno_connection_made", <<Enter(conn, fail, StaleUb), "h1">>)
          IN  Return(r, [op |-> "begin", version |-> "h1", fail |-> fail, path |-> r.path])

H1Consume ==
    /\ H1Ready
    /\ conn.state # "CLOSED"
    /\ \E data \in H1Inputs(conn) :
          \E fail \in Fails(Call("cno_connection_data_received",
                                 <<Enter(conn, "none", StaleUb), Items(data)>>)) :
             LET r == Call("cno_connection_data_received",
                           <<Enter(conn, fail, StaleUb), Items(data)>>)
             IN  Return(r, [op |-> "consume", data |-> data, fail |-> fail,
                            path |-> r.path])

\* a client writes a request on its next stream, a server a response on stream 1
H1WriteMessage ==
    /\ H1Ready
    /\ conn.state # "CLOSED"
    /\ \E msg \in Messages(conn), final \in BOOLEAN :
          \E fail \in Fails(Call("cno_write_message",
                                 <<Enter(conn, "none", StaleUb), 1, msg, final>>)) :
             LET r == Call("cno_write_message",
                           <<Enter(conn, fail, StaleUb), 1, msg, final>>)
             IN  Return(r, [op |-> "write_message", stream |-> 1, msg |-> msg,
                            final |-> final, fail |-> fail, path |-> r.path])

NextH1 ==
    \/ H1Begin
    \/ H1Consume
    \/ H1WriteMessage

SpecH1 == InitH1 /\ [][NextH1]_vars

RECURSIVE Flat(_)
\* the concatenation of a sequence of sequences
Flat(seqs) == IF seqs = <<>> THEN <<>> ELSE Head(seqs) \o Flat(Tail(seqs))

\* the octets given to the on_message_data calls among cs, in order
DataGiven(cs) ==
    Flat([i \in 1 .. Len(cs) |->
             IF cs[i].cb = "on_message_data" THEN cs[i].arg.data ELSE <<>>])

\* a client in h1 mode has written a final request that expects a body (not
\* HEAD) on stream 1, which fired on_stream_start(1), and is given a 200
\* response with these chunks in one piece
ClientChunked(chunks) ==
    /\ conn.client /\ conn.mode = "h1" /\ conn.state = "H1_HEAD"
    /\ call.op = "write_message" /\ call.final /\ call.fail = "none" /\ ret.code = "OK"
    /\ call.msg.method # "HEAD"
    /\ Len(cbs) = 1 /\ cbs[1].cb = "on_stream_start" /\ cbs[1].id = 1
    /\ call'.op = "consume" /\ call'.fail = "none"
    /\ call'.data = ChunkedResponse(200, chunks)

\* the callbacks of the response and the states of its parse
ChunkedDone(chunks) ==
    /\ ret'.code = "OK"
    /\ Len(cbs') >= 3
    /\ cbs'[1].cb = "on_message_head" /\ cbs'[1].arg.msg.code = 200
    /\ \A i \in 2 .. Len(cbs') - 2 : cbs'[i].cb = "on_message_data"
    /\ DataGiven(cbs') = Flat(chunks)
    /\ cbs'[Len(cbs') - 1].cb = "on_message_tail"
    /\ cbs'[Len(cbs') - 1].arg.trailers = "null"
    /\ cbs'[Len(cbs')].cb = "on_stream_end"
    /\ \A i \in 1 .. Len(cbs') : cbs'[i].id = 1
    /\ {"H1_CHUNK", "H1_CHUNK_BODY", "H1_CHUNK_TAIL", "H1_TRAILERS", "H1_TAIL"}
          \subseteq {call'.path[i] : i \in 1 .. Len(call'.path)}
    /\ call'.path[1] = "H1_CHUNK"
    /\ conn'.state = "H1_HEAD"

\* C12: a client in h1 mode that has written a final request on stream s
\* (on_stream_start(s) fired then) and consumes a chunked response with one
\* or more non-empty chunks and the zero chunk fires on_message_head(s),
\* on_message_data(s) calls that carry the payloads of the chunks,
\* on_message_tail(s, null) and on_stream_end(s), in this order and nothing
\* else, and goes from H1_HEAD through H1_CHUNK, H1_CHUNK_BODY, H1_CHUNK_TAIL,
\* H1_TRAILERS and H1_TAIL back to H1_HEAD.
C12_Chunked ==
    [][\A chunks \in ChunkLists \ {<<>>} :
          ClientChunked(chunks) => ChunkedDone(chunks)]_vars

\* the same for chunks whose size is written with the digits 0 to 9 only
C12_ShortChunks ==
    [][\A chunks \in ChunkLists \ {<<>>} :
          ClientChunked(chunks) /\ (\A i \in 1 .. Len(chunks) : Len(chunks[i]) < 10)
             => ChunkedDone(chunks)]_vars

\* the response with two chunks has been consumed after a GET
C12_Witness ==
    /\ conn.client /\ call.op = "consume" /\ call.fail = "none"
    /\ call.data = ChunkedResponse(200, <<<<"h", "i">>, <<"x">>>>)
    /\ ret.code = "OK" /\ conn.state = "H1_HEAD"
    /\ CbNames(cbs) = <<"on_message_head", "on_message_data", "on_message_data",
                        "on_message_tail", "on_stream_end">>
    /\ DataGiven(cbs) = <<"h", "i", "x">>

\* the positions of the upgrade headers of a head, and of those that ask for h2c
UpgradeAt(u) == {i \in 1 .. Len(u.hdr) : H1Lower(u.hdr[i].name) = "upgrade"}
H2cAt(u) == {i \in UpgradeAt(u) : u.hdr[i].value = "h2c"}

\* every upgrade header with another value comes after one that asks for h2c
FirstUpgradeIsH2c(u) ==
    \A i \in UpgradeAt(u) \ H2cAt(u) : \E j \in H2cAt(u) : j < i

\* a server in h1 mode that allows the upgrade is given its first request,
\* whose head carries upgrade: h2c
UpgradeAsked ==
    /\ ~conn.client /\ conn.mode = "h1" /\ ~conn.disallow_h2_upgrade
    /\ conn.state = "H1_HEAD" /\ conn.last_stream[CNO_REMOTE] = 0
    /\ call.op = "begin" /\ ret.code = "OK"
    /\ call'.op = "consume" /\ call'.fail = "none"
    /\ call'.data[1].k = "h1head" /\ H2cAt(call'.data[1]) # {}

\* the 101 response and the SETTINGS frame were written, the connection is in
\* h2 mode, the head was delivered without the upgrade header and without
\* on_upgrade, and H2_PREFACE follows the tail of the request
Upgraded ==
    /\ ret'.code = "OK"
    /\ Len(out') >= 2
    /\ out'[1].type = "H1_101"
    /\ out'[2].type = "SETTINGS" /\ out'[2].flags = {} /\ out'[2].stream = 0
    /\ out'[2].arg.entries = cno_frame_write_settings(Enter(conn, "none", StaleUb),
                                 CNO_SETTINGS_STANDARD, conn.settings[CNO_LOCAL]).out[1].arg.entries
    /\ conn'.mode = "h2"
    /\ Len(cbs') >= 2
    /\ cbs'[1].cb = "on_stream_start" /\ cbs'[1].id = 1
    /\ cbs'[2].cb = "on_message_head" /\ cbs'[2].id = 1
    /\ \A j \in 1 .. Len(cbs'[2].arg.kept) : cbs'[2].arg.kept[j] # "upgrade"
    /\ \A i \in 1 .. Len(cbs') : cbs'[i].cb # "on_upgrade"
    /\ \A i \in 1 .. Len(call'.path) :
          call'.path[i] = "H1_TAIL" =>
             /\ i < Len(call'.path) /\ call'.path[i + 1] = "H2_PREFACE"
             /\ \E j \in 1 .. Len(cbs') : cbs'[j].cb = "on_message_tail" /\ cbs'[j].id = 1
    /\ (\E j \in 1 .. Len(cbs') : cbs'[j].cb = "on_message_tail")
          => \E i \in 1 .. Len(call'.path) : call'.path[i] = "H1_TAIL"
    /\ Len(call'.data) = 1 /\ call'.data[1].h1.method = "GET" => conn'.state = "H2_PREFACE"

\* C13: a server in h1 mode with h2 upgrades allowed that receives, as its
\* first request, a complete head carrying upgrade: h2c writes the 101
\* response and then its SETTINGS frame, is in h2 mode, delivers the head
\* without the upgrade header and without on_upgrade, and is in H2_PREFACE
\* after the tail of the request.
C13_Upgrade == [][UpgradeAsked => Upgraded]_vars

\* C13 as the code has it: no upgrade header with another value comes before
\* the one that asks for h2c.
C13_UpgradeAmended ==
    [][UpgradeAsked /\ FirstUpgradeIsH2c(call'.data[1]) => Upgraded]_vars

\* a POST with upgrade: h2c and its body has been consumed
C13_Witness ==
    /\ ~conn.client /\ call.op = "consume" /\ call.fail = "none"
    /\ Len(call.data) = 4 /\ call.data[1].k = "h1head" /\ H2cAt(call.data[1]) # {}
    /\ call.data[1].h1.method = "POST"
    /\ conn.mode = "h2" /\ conn.state = "H2_PREFACE" /\ ret.code = "OK"
    /\ Len(out) = 2 /\ out[1].type = "H1_101" /\ out[2].type = "SETTINGS"
    /\ CbNames(cbs) = <<"on_stream_start", "on_message_head", "on_message_data",
                        "on_message_tail">>

----------------------------------------------------------------------------
(* Errors of the HTTP/2 framing layer, checked on the frames of SpecWire.   *)

\* the units of a consume call before its last one
Before(data) == SubSeq(data, 1, Len(data) - 1)

\* the threaded record when the last unit of the data of the next consume call
\* is reached: the result of consuming the units before it
Reached == Call("cno_connection_data_received",
                <<Enter(conn, "none", StaleUb), Items(Before(call'.data))>>)

\* the next call is a consume call whose last unit is a frame that is reached in
\* state H2_FRAME with nothing else buffered
LastFrameReached ==
    /\ conn.state = "H2_FRAME" /\ conn.buffer = <<>>
    /\ call'.op = "consume" /\ call'.fail = "none"
    /\ call'.data[Len(call'.data)].k = "frame"
    /\ Ok(Reached) /\ Reached.c.state = "H2_FRAME" /\ Reached.c.buffer = <<>>

\* the length of the last frame exceeds LOCAL.max_frame_size
Oversized ==
    /\ LastFrameReached
    /\ call'.data[Len(call'.data)].len >
          Narrow(Reached.c.settings[CNO_LOCAL][MAX_FRAME_SIZE])

\* consume wrote GOAWAY(FRAME_SIZE_ERROR) with this last stream id and returned
\* PROTOCOL; nothing was fired or changed for the frame
OversizedRefused(last) ==
    /\ ret'.code = "PROTOCOL"
    /\ out' = Reached.out \o <<OutFrame("GOAWAY", {}, 0, 8,
                                        [last |-> last, code |-> "FRAME_SIZE_ERROR"])>>
    /\ cbs' = Reached.cbs
    /\ [conn' EXCEPT !.buffer = <<>>, !.goaway_sent = 0]
          = [Reached.c EXCEPT !.buffer = <<>>, !.goaway_sent = 0]

\* C14: in state H2_FRAME a frame header whose length exceeds
\* LOCAL.max_frame_size makes consume write GOAWAY(FRAME_SIZE_ERROR) with the
\* last remote stream id and return PROTOCOL; on_frame is not fired and no
\* handler runs for the frame.
C14_Oversized ==
    [][Oversized => OversizedRefused(conn'.last_stream[CNO_REMOTE])]_vars

\* C14 as the code has it: the GOAWAY carries the stream id of the GOAWAY
\* written before, when there was one with an id other than 0.
C14_OversizedAmended ==
    [][Oversized =>
          OversizedRefused(IF Reached.c.goaway_sent # 0 THEN Reached.c.goaway_sent
                           ELSE conn'.last_stream[CNO_REMOTE])]_vars

\* a server with stream 1 open was given a DATA frame of 16385 octets
C14_Witness ==
    /\ ~conn.client /\ call.op = "consume" /\ call.fail = "none"
    /\ call.data = <<Frame("DATA", {}, 1, 16385)>>
    /\ conn.last_stream[CNO_REMOTE] = 1 /\ HasStream(conn, 1)
    /\ ret.code = "PROTOCOL" /\ cbs = <<>>
    /\ Len(out) = 1 /\ out[1].type = "GOAWAY" /\ out[1].arg.code = "FRAME_SIZE_ERROR"
    /\ out[1].arg.last = 1

\* the last frame of the next consume call
LastFrame == call'.data[Len(call'.data)]

\* the last frame is a HEADERS frame with END_HEADERS whose header list breaks a
\* rule of the validator, and it is taken as the head of a message of its
\* stream (a response, or a request that opens the stream) or as its trailers
MalformedHeaders ==
    /\ LastFrameReached
    /\ LastFrame.type = "HEADERS" /\ LastFrame.flags \in {EH, EHS}
    /\ LET c == Reached.c
           s == LastFrame.stream
       IN  \/ /\ c.client /\ HasStream(c, s) /\ cno_stream_find(c, s).r_state = "HEADERS"
              /\ LastFrame.hdr \in BadResponseLists
           \/ /\ HasStream(c, s) /\ cno_stream_find(c, s).r_state = "DATA"
              /\ LastFrame.flags = EHS
              /\ LastFrame.hdr \in BadTrailerLists
           \/ /\ ~c.client /\ ~HasStream(c, s) /\ s % 2 = 1 /\ s > c.last_stream[CNO_REMOTE]
              /\ c.goaway_sent = 0
              /\ wLt(Wide(c.stream_count[CNO_REMOTE]),
                     c.settings[CNO_LOCAL][MAX_CONCURRENT_STREAMS])
              /\ LastFrame.hdr \in BadRequestLists

\* the callbacks after those of the frames before the last one
LastCallbacks == SubSeq(cbs', Len(Reached.cbs) + 1, Len(cbs'))

\* the stream was reset with PROTOCOL_ERROR and destroyed, and no message was
\* delivered
StreamRefused ==
    /\ ret'.code = "OK"
    /\ out' = Reached.out \o <<OutFrame("RST_STREAM", {}, LastFrame.stream, 4,
                                        [code |-> "PROTOCOL_ERROR"])>>
    /\ ~HasStream(conn', LastFrame.stream)
    /\ SubSeq(cbs', 1, Len(Reached.cbs)) = Reached.cbs
    /\ \A i \in 1 .. Len(LastCallbacks) :
          /\ LastCallbacks[i].cb \in {"on_frame", "on_stream_start", "on_stream_end"}
          /\ LastCallbacks[i].cb # "on_frame" => LastCallbacks[i].id = LastFrame.stream
    /\ \E i \in 1 .. Len(LastCallbacks) : LastCallbacks[i].cb = "on_stream_end"

\* C15: a HEADERS frame on stream s whose header list breaks a rule of the
\* validator (pseudo-header after a regular header or in trailers, duplicate
\* or unknown pseudo-header, upper-case or invalid name, connection, te other
\* than trailers, unparseable content-length, missing pseudo-header) makes
\* consume write exactly one RST_STREAM(PROTOCOL_ERROR) on s and no GOAWAY,
\* destroy s, fire no on_message_head and no on_message_tail, and return OK.
C15_Malformed == [][MalformedHeaders => StreamRefused]_vars

\* the same without the response that has a second :status with the value 0
C15_MalformedButStatus ==
    [][MalformedHeaders /\ LastFrame.hdr # <<Hdr(":status", "200"), Hdr(":status", "0")>>
          => StreamRefused]_vars

\* a server has refused trailers with a pseudo-header
C15_Witness ==
    /\ ~conn.client /\ call.op = "consume" /\ call.fail = "none"
    /\ call.data = <<HeadersFrame(1, EHS, <<Hdr(":status", "200")>>)>>
    /\ ret.code = "OK" /\ ~HasStream(conn, 1)
    /\ Len(out) = 1 /\ out[1].type = "RST_STREAM" /\ out[1].arg.code = "PROTOCOL_ERROR"
    /\ CbNames(cbs) = <<"on_frame", "on_stream_end">>

\* the entries of the reset-history ring that hold stream s
RingEntries(c, s) ==
    {i \in 0 .. CNO_STREAM_RESET_HISTORY - 1 : c.recently_reset[i].id = s}

\* the last frame is a well-formed DATA, HEADERS, WINDOW_UPDATE or RST_STREAM
\* frame for a stream that was reset locally and is still in the ring
LateFrame ==
    /\ LastFrameReached
    /\ LastFrame.type \in {"DATA", "HEADERS", "WINDOW_UPDATE", "RST_STREAM"}
    /\ LastFrame \notin BadFrames
    /\ LastFrame.stream # 0
    /\ ~HasStream(Reached.c, LastFrame.stream)
    /\ RingEntries(Reached.c, LastFrame.stream) # {}

\* the frame was ignored: no GOAWAY, no callback but the on_frame hook, no
\* change to the streams, and consume returned OK
LateIgnored ==
    /\ ret'.code = "OK"
    /\ \A i \in 1 .. Len(out') : out'[i].type # "GOAWAY"
    /\ SubSeq(cbs', 1, Len(Reached.cbs)) = Reached.cbs
    /\ \A i \in 1 .. Len(LastCallbacks) : LastCallbacks[i].cb = "on_frame"
    /\ conn'.streams = Reached.c.streams

\* C16: while a stream that was reset locally with its read half not CLOSED is
\* in the reset-history ring, every DATA, HEADERS, WINDOW_UPDATE or RST_STREAM
\* frame for it is ignored: no GOAWAY is written, no message or stream
\* callback fires for it, and consume returns OK.
C16_LateFrames == [][LateFrame => LateIgnored]_vars

\* the same for the frames the flag of the ring entry admits: any but HEADERS
\* when the stream was reset after its head, any but DATA when it was reset
\* while its head was expected
C16_LateFramesAdmitted ==
    [][/\ LateFrame
       /\ \E i \in RingEntries(Reached.c, LastFrame.stream) :
             IF Reached.c.recently_reset[i].is_headers
             THEN LastFrame.type # "DATA" ELSE LastFrame.type # "HEADERS"
       => LateIgnored]_vars

\* a DATA frame for a stream in the ring has been ignored
C16_Witness ==
    /\ call.op = "consume" /\ call.fail = "none"
    /\ call.data = <<Frame("DATA", {}, 1, 3)>>
    /\ ~HasStream(conn, 1) /\ RingEntries(conn, 1) # {}
    /\ ret.code = "OK" /\ CbNames(cbs) = <<"on_frame">>

\* the last frame is a WINDOW_UPDATE frame for an open stream whose increment
\* would take the send window of the stream above 2^31-1
WindowOverflow ==
    /\ LastFrameReached
    /\ LastFrame.type = "WINDOW_UPDATE" /\ LastFrame.len = 4 /\ LastFrame.stream # 0
    /\ LastFrame.val # W0
    /\ HasStream(Reached.c, LastFrame.stream)
    /\ wLt(INT31_MAX,
           wAdd(wAdd(cno_stream_find(Reached.c, LastFrame.stream).window_send, LastFrame.val),
                Reached.c.settings[CNO_REMOTE][INITIAL_WINDOW_SIZE]))

\* the stream was reset with FLOW_CONTROL_ERROR and destroyed, and the
\* connection goes on in H2_FRAME
OverflowReset ==
    /\ ret'.code = "OK"
    /\ out' = Reached.out \o <<OutFrame("RST_STREAM", {}, LastFrame.stream, 4,
                                        [code |-> "FLOW_CONTROL_ERROR"])>>
    /\ ~HasStream(conn', LastFrame.stream)
    /\ conn'.state = "H2_FRAME" /\ conn'.buffer = <<>>
    /\ conn'.goaway_sent = Reached.c.goaway_sent
    /\ CbNames(LastCallbacks) = <<"on_frame", "on_stream_end">>

\* C17: a WINDOW_UPDATE frame on an open stream s whose increment, 2^31
\* included, would take the send window of s above 2^31-1 makes consume write
\* RST_STREAM(FLOW_CONTROL_ERROR) on s and destroy s; no GOAWAY is written,
\* consume returns OK and later frames are processed.
C17_StreamOverflow == [][WindowOverflow => OverflowReset]_vars

\* C17 as the code has it: for the increments from 1 to 2^31-1; an increment of
\* 2^31 is out of bounds, which is an error of the connection.
C17_StreamOverflowAmended ==
    [][(WindowOverflow /\ wLe(LastFrame.val, INT31_MAX) => OverflowReset)
       /\ (WindowOverflow /\ wLt(INT31_MAX, LastFrame.val) =>
              /\ ret'.code = "PROTOCOL"
              /\ out' = Reached.out \o <<OutFrame("GOAWAY", {}, 0, 8,
                                            [last |-> conn'.goaway_sent,
                                             code |-> "PROTOCOL_ERROR"])>>
              /\ conn'.streams = Reached.c.streams)]_vars

\* the PING frame after the WINDOW_UPDATE frame that overflowed the window of
\* stream 1 was answered
C17_Witness ==
    /\ call.op = "consume" /\ call.fail = "none"
    /\ call.data = <<WindowUpdateFrame(1, INT31_MAX), Frame("PING", {}, 0, 8)>>
    /\ ret.code = "OK" /\ conn.state = "H2_FRAME" /\ ~HasStream(conn, 1)
    /\ Len(out) = 2
    /\ out[1] = OutFrame("RST_STREAM", {}, 1, 4, [code |-> "FLOW_CONTROL_ERROR"])
    /\ out[2].type = "PING" /\ out[2].flags = {CNO_FLAG_ACK}
    /\ CbNames(cbs) = <<"on_frame", "on_stream_end", "on_frame">>

\* consume on a connection in h2 mode has returned PROTOCOL
ProtocolReturned == conn.mode = "h2" /\ call.op = "consume" /\ ret.code = "PROTOCOL"

\* the last thing the call wrote is a GOAWAY frame with an error code
GoawayWritten ==
    /\ out # <<>>
    /\ out[Len(out)].type = "GOAWAY"
    /\ out[Len(out)].arg.code \in {"PROTOCOL_ERROR", "FRAME_SIZE_ERROR", "FLOW_CONTROL_ERROR",
                                   "COMPRESSION_ERROR", "ENHANCE_YOUR_CALM"}

\* C18: whenever consume on a connection in h2 mode returns PROTOCOL, the call
\* has written a GOAWAY frame with the matching error code before, whatever
\* the cause (frame size, stream of the frame, padding, SETTINGS values,
\* WINDOW_UPDATE increment, stream id parity or order, stream limit, preface,
\* GOAWAY received with an error code).
C18_GoawayBeforeProtocol == ProtocolReturned => GoawayWritten

\* the causes that return PROTOCOL without a GOAWAY frame: the preface or the
\* first SETTINGS frame is missing, a GOAWAY frame with an error code is
\* received, or cno_stream_new refuses the stream of a HEADERS or PUSH_PROMISE
\* frame
PlainProtocolCause ==
    \/ conn.state \in {"H2_PREFACE", "H2_SETTINGS"}
    \/ \E i \in 1 .. Len(call.data) :
          /\ call.data[i].k = "frame"
          /\ \/ call.data[i].type = "GOAWAY" /\ call.data[i].code # "NO_ERROR"
             \/ call.data[i].type = "PUSH_PROMISE"
             \/ call.data[i].type = "HEADERS" /\ call.data[i].stream % 2 = 0

\* the same for the other causes
C18_GoawayFromFrameErrors ==
    ProtocolReturned /\ ~PlainProtocolCause => GoawayWritten

\* a server was given HEADERS on stream 2 and returned PROTOCOL having written
\* nothing
C18_Witness ==
    /\ ~conn.client /\ ProtocolReturned /\ call.fail = "none"
    /\ call.data = <<HeadersFrame(2, EH, RequestHeaders)>>
    /\ out = <<>>

\* side `local` has as many streams open as the other side allows
AtLimit(c, local) == wLe(StreamLimit(c, local), Wide(c.stream_count[local]))

\* a client asks for a new stream, with an id it may use, at the limit
LocalOpenAtLimit ==
    /\ AsksToOpen
    /\ call'.stream % 2 = 1 /\ call'.stream > conn.last_stream[CNO_LOCAL]
    /\ AtLimit(conn, CNO_LOCAL)

\* the last frame is a HEADERS frame that asks a server for a new stream, with
\* an id the peer may use, at the limit
PeerHeadersAtLimit ==
    /\ LastFrameReached
    /\ ~Reached.c.client
    /\ LastFrame.type = "HEADERS" /\ LastFrame.flags \in {EH, EHS}
    /\ ~HasStream(Reached.c, LastFrame.stream)
    /\ LastFrame.stream % 2 = 1 /\ LastFrame.stream > Reached.c.last_stream[CNO_REMOTE]
    /\ AtLimit(Reached.c, CNO_REMOTE)

\* the last frame is a PUSH_PROMISE frame that promises a client a new stream,
\* with an id the peer may use, at the limit
PeerPushAtLimit ==
    /\ LastFrameReached
    /\ Reached.c.client
    /\ LastFrame.type = "PUSH_PROMISE" /\ LastFrame.flags = EH
    /\ Reached.c.settings[CNO_LOCAL][ENABLE_PUSH] # W0
    /\ LastFrame.stream % 2 = 1 /\ HasStream(Reached.c, LastFrame.stream)
    /\ cno_stream_find(Reached.c, LastFrame.stream).r_state # "CLOSED"
    /\ LastFrame.promised % 2 = 0 /\ LastFrame.promised > Reached.c.last_stream[CNO_REMOTE]
    /\ AtLimit(Reached.c, CNO_REMOTE)

\* the call created no stream and fired no on_stream_start
NothingOpened(before) ==
    /\ conn'.streams = before.streams
    /\ conn'.stream_count = before.stream_count
    /\ \A i \in 1 .. Len(LastCallbacks) : LastCallbacks[i].cb # "on_stream_start"

\* C19: opening a stream for a side that has as many streams open as the other
\* side allows (1 in h1 mode) fails, creates no stream and fires no
\* on_stream_start; the failure is WOULD_BLOCK for a local open and PROTOCOL
\* for an open by the peer.
C19_Limit ==
    [][/\ LocalOpenAtLimit =>
             /\ ret'.code = "WOULD_BLOCK"
             /\ conn'.streams = conn.streams
             /\ CallbackIds(cbs', "on_stream_start") = {}
       /\ PeerHeadersAtLimit \/ PeerPushAtLimit =>
             ret'.code = "PROTOCOL" /\ NothingOpened(Reached.c)]_vars

\* C19 as the code has it: a HEADERS frame of the peer at the limit is refused
\* with RST_STREAM(REFUSED_STREAM) and consume returns OK; an open by a
\* PUSH_PROMISE frame at the limit returns PROTOCOL.
C19_LimitAmended ==
    [][/\ LocalOpenAtLimit =>
             /\ ret'.code = "WOULD_BLOCK"
             /\ conn'.streams = conn.streams
             /\ CallbackIds(cbs', "on_stream_start") = {}
       /\ PeerHeadersAtLimit =>
             /\ ret'.code = "OK"
             /\ out' = Reached.out \o <<OutFrame("RST_STREAM", {}, LastFrame.stream, 4,
                                                 [code |-> "REFUSED_STREAM"])>>
             /\ NothingOpened(Reached.c)
       /\ PeerPushAtLimit =>
             /\ ret'.code = "PROTOCOL"
             /\ NothingOpened(Reached.c)]_vars

\* a server that allows one stream has refused the HEADERS frame of a second
C19_Witness ==
    /\ ~conn.client /\ call.op = "consume" /\ call.fail = "none"
    /\ call.data = <<HeadersFrame(3, EH, RequestHeaders)>>
    /\ conn.settings[CNO_LOCAL][MAX_CONCURRENT_STREAMS] = Wide(1)
    /\ HasStream(conn, 1) /\ ~HasStream(conn, 3)
    /\ ret.code = "OK"
    /\ Len(out) = 1 /\ out[1].type = "RST_STREAM" /\ out[1].arg.code = "REFUSED_STREAM"

\* a client was refused a second stream by the limit of its peer
C19_LocalReached ==
    /\ conn.client /\ call.op = "write_message" /\ ret.code = "WOULD_BLOCK"
    /\ conn.mode = "h2" /\ conn.stream_count[CNO_LOCAL] = 1

\* a client that allows one stream was promised a second
C19_PushReached ==
    /\ conn.client /\ call.op = "consume" /\ ret.code = "PROTOCOL"
    /\ call.data = <<PushPromiseFrame(1, 4)>>
    /\ conn.stream_count[CNO_REMOTE] = 1 /\ HasStream(conn, 2) /\ ~HasStream(conn, 4)
    /\ out = <<>>

\* a settings vector within the bounds of the protocol
SettingsInBounds(v) ==
    /\ v[ENABLE_PUSH] \in {W0, Wide(1)}
    /\ wLe(Wide(16384), v[MAX_FRAME_SIZE]) /\ wLe(v[MAX_FRAME_SIZE], Wide(16777215))
    /\ wLe(v[INITIAL_WINDOW_SIZE], INT31_MAX)

\* C20: in every reachable state, those after a rejected configure or a
\* rejected SETTINGS frame included, the LOCAL and the REMOTE settings have
\* enable_push in {0, 1}, max_frame_size from 2^14 to 2^24-1 and
\* initial_window_size at most 2^31-1.
C20_SettingsInBounds ==
    SettingsInBounds(conn.settings[CNO_LOCAL]) /\ SettingsInBounds(conn.settings[CNO_REMOTE])

\* the same for the settings a call that returned OK has left, but for the
\* initial_window_size of LOCAL, which configure does not test
C20_AcceptedInBounds ==
    /\ ret.code = "OK" => SettingsInBounds(conn.settings[CNO_REMOTE])
    /\ conn.settings[CNO_LOCAL][ENABLE_PUSH] \in {W0, Wide(1)}
    /\ wLe(Wide(16384), conn.settings[CNO_LOCAL][MAX_FRAME_SIZE])
    /\ wLe(conn.settings[CNO_LOCAL][MAX_FRAME_SIZE], Wide(16777215))

\* a SETTINGS frame with enable_push 2 was rejected and its value stored
C20_Witness ==
    /\ call.op = "consume" /\ ret.code = "PROTOCOL"
    /\ conn.settings[CNO_REMOTE][ENABLE_PUSH] = Wide(2)
    /\ out # <<>> /\ out[Len(out)].type = "GOAWAY"

----------------------------------------------------------------------------
(* The life of a stream.                                                    *)

\* the streams of the table
TableStreams(c) ==
    {c.streams[x[1]][x[2]] : x \in
        {y \in (0 .. CNO_STREAM_BUCKETS - 1) \X (1 .. MaxStreamId + 1) :
            y[2] <= Len(c.streams[y[1]])}}

\* no stream of the table has both halves CLOSED
NoneFullyClosed(c) ==
    \A s \in TableStreams(c) : ~(s.r_state = "CLOSED" /\ s.w_state = "CLOSED")

\* the streams the call took out of the table were ended through on_stream_end
RemovedWereEnded ==
    (TableIds(conn) \ TableIds(conn')) \subseteq CallbackIds(cbs', "on_stream_end")

\* C21: between API calls no stream of the table has both its read half and its
\* write half CLOSED; a stream leaves the table, with on_stream_end fired, in the
\* call that closes the second of its halves.
C21_Lifecycle ==
    [][NoneFullyClosed(conn') /\ RemovedWereEnded]_vars

\* a stream of an earlier call, whose write half was closed, had its read half
\* closed by the last call, which ended it
C21_Witness ==
    /\ call.op = "consume" /\ ret.code = "OK"
    /\ \E i \in 1 .. Len(cbs) : \E j \in 1 .. Len(cbs) :
          /\ i < j
          /\ cbs[i].cb = "on_message_tail" /\ cbs[j].cb = "on_stream_end"
          /\ cbs[i].id = cbs[j].id
          /\ cbs[i].id \notin TableIds(conn)
          /\ cbs[i].id \in hist.started

----------------------------------------------------------------------------
(* Header blocks.  An h2 connection that is given HEADERS, PUSH_PROMISE,    *)
(* CONTINUATION and DATA frames for a stream that is open, was reset or was *)
(* refused; a client opens stream 1 itself.  The embedder stops at the      *)
(* first error, as under SpecWire.                                         *)

MaxBlockCalls == 5

LengthHeader(n) == Hdr("content-length", n)

\* a HEADERS frame, without END_HEADERS, followed by n empty CONTINUATION frames
RECURSIVE EmptyContinuations(_, _)
EmptyContinuations(stream, n) ==
    IF n = 0 THEN <<>>
    ELSE <<[ContinuationFrame(stream, {}, <<>>) EXCEPT !.len = 0]>>
         \o EmptyContinuations(stream, n - 1)

\* what the peer of a server sends once the connection runs
BlockFramesOfClient ==
    {<<HeadersFrame(1, EH, RequestHeaders)>>,
     <<HeadersFrame(1, EHS, RequestHeaders)>>,
     <<HeadersFrame(1, EH, <<Hdr(":method", "GET"), Hdr(":scheme", "http")>>)>>,
     <<HeadersFrame(1, EH, RequestHeaders \o <<LengthHeader("3")>>)>>,
     <<HeadersFrame(1, EHS, RequestHeaders \o <<LengthHeader("3")>>)>>,
     <<Frame("DATA", {}, 1, 3)>>,
     <<Frame("DATA", {CNO_FLAG_END_STREAM}, 1, 3)>>,
     <<Frame("DATA", {CNO_FLAG_END_STREAM}, 1, 2)>>,
     <<HeadersFrame(1, EHS, TrailerHeaders)>>,
     <<HeadersFrame(1, {}, RequestHeaders), ContinuationFrame(1, EH, TrailerHeaders)>>,
     <<HeadersFrame(1, {}, RequestHeaders)>>,
     <<ContinuationFrame(1, EH, TrailerHeaders)>>,
     <<PriorityHeadersFrame(1, EHS, 1, TrailerHeaders)>>,
     <<PriorityHeadersFrame(1, EH, 1, RequestHeaders)>>,
     <<PriorityHeadersFrame(1, EH, 3, RequestHeaders)>>,
     <<HeadersFrame(3, EH, RequestHeaders)>>,
     <<HeadersFrame(1, EH, RequestHeaders \o <<LengthHeader("3")>>),
       Frame("DATA", {CNO_FLAG_END_STREAM}, 1, 3)>>,
     <<HeadersFrame(1, EH, RequestHeaders \o <<LengthHeader("3")>>),
       Frame("DATA", {CNO_FLAG_END_STREAM}, 1, 4)>>,
     <<HeadersFrame(1, EH, RequestHeaders \o <<LengthHeader("3")>>),
       Frame("DATA", {}, 1, 2), HeadersFrame(1, EHS, TrailerHeaders)>>,
     <<HeadersFrame(1, EH, RequestHeaders \o <<LengthHeader("3")>>),
       Frame("DATA", {}, 1, 3), HeadersFrame(1, EHS, TrailerHeaders)>>,
     <<HeadersFrame(1, {}, RequestHeaders)>>
         \o EmptyContinuations(1, CNO_MAX_CONTINUATIONS + 1)
         \o <<ContinuationFrame(1, EH, <<>>)>>,
     <<HeadersFrame(1, {}, RequestHeaders),
       [ContinuationFrame(1, {}, <<>>) EXCEPT !.len = 16384],
       [ContinuationFrame(1, {}, <<>>) EXCEPT !.len = 16384],
       [ContinuationFrame(1, {}, <<>>) EXCEPT !.len = 16384]>>}

\* what the peer of a client sends once the connection runs
BlockFramesOfServer ==
    {<<HeadersFrame(1, EH, ResponseHeaders)>>,
     <<HeadersFrame(1, EHS, ResponseHeaders)>>,
     <<HeadersFrame(1, EH, <<Hdr("x-a", "1")>>)>>,
     <<HeadersFrame(1, EH, ResponseHeaders \o <<LengthHeader("3")>>)>>,
     <<HeadersFrame(1, EHS, ResponseHeaders \o <<LengthHeader("3")>>)>>,
     <<HeadersFrame(1, EH, <<Hdr(":status", "100")>>)>>,
     <<HeadersFrame(1, EHS, <<Hdr(":status", "100")>>)>>,
     <<HeadersFrame(1, EH, <<Hdr(":status", "100"), LengthHeader("3")>>)>>,
     <<HeadersFrame(1, EH, <<Hdr(":status", "100"), LengthHeader("0")>>)>>,
     <<Frame("DATA", {}, 1, 3)>>,
     <<Frame("DATA", {CNO_FLAG_END_STREAM}, 1, 3)>>,
     <<Frame("DATA", {CNO_FLAG_END_STREAM}, 1, 2)>>,
     <<HeadersFrame(1, EHS, TrailerHeaders)>>,
     <<HeadersFrame(1, {}, ResponseHeaders), ContinuationFrame(1, EH, TrailerHeaders)>>,
     <<PriorityHeadersFrame(1, EHS, 1, ResponseHeaders)>>,
     <<HeadersFrame(1, EH, ResponseHeaders \o <<LengthHeader("3")>>),
       Frame("DATA", {CNO_FLAG_END_STREAM}, 1, 2)>>,
     <<HeadersFrame(1, EH, ResponseHeaders \o <<LengthHeader("3")>>),
       Frame("DATA", {CNO_FLAG_END_STREAM}, 1, 3)>>,
     <<PushPromiseFrame(1, 2)>>,
     <<PushPromiseFrame(3, 2)>>,
     <<[PushPromiseFrame(1, 2) EXCEPT !.flags = {}],
       ContinuationFrame(1, EH, TrailerHeaders)>>,
     <<HeadersFrame(2, EH, ResponseHeaders)>>}

BlockInputs(c) ==
    IF c.state = "H2_FRAME"
    THEN IF c.client THEN BlockFramesOfServer ELSE BlockFramesOfClient
    ELSE IF c.client THEN {<<SettingsFrame(<<>>)>>}
    ELSE {<<PrefaceUnit, SettingsFrame(<<>>)>>,
          <<PrefaceUnit, SettingsFrame(<<>>), HeadersFrame(1, EH, RequestHeaders)>>}

BlockReady ==
    /\ hist.calls < MaxBlockCalls
    /\ ret.code \notin {"SIGSEGV", "CALLBACK"}
    /\ call.op \in {"begin", "consume"} => ret.code = "OK"

BlockBegin == BlockReady /\ call.op = "init" /\ BeginAs({"h2"})

BlockConsume == BlockReady /\ conn.state # "CLOSED" /\ ConsumeOf(BlockInputs(conn))

\* a client opens stream 1 with a GET or a HEAD request
BlockWriteMessage ==
    /\ BlockReady /\ conn.state = "H2_FRAME" /\ conn.client
    /\ conn.last_stream[CNO_LOCAL] = 0
    /\ WriteMessageOf({1}, {Message(0, "GET", "/", <<>>, 10),
                            Message(0, "HEAD", "/", <<>>, 10)}, {TRUE})

\* cno_connection_stop on a server
BlockShutdown ==
    /\ BlockReady /\ conn.state = "H2_FRAME" /\ ~conn.client
    /\ conn.goaway_sent = 0 /\ call.op = "consume"
    /\ \E fail \in Fails(Call("cno_connection_stop", <<Enter(conn, "none", StaleUb)>>)) :
          Return(Call("cno_connection_stop", <<Enter(conn, fail, StaleUb)>>),
                 [op |-> "shutdown", fail |-> fail])

NextBlock ==
    \/ BlockBegin
    \/ BlockConsume
    \/ BlockWriteMessage
    \/ BlockShutdown

SpecBlock == Init /\ [][NextBlock]_vars

\* the header block that is being continued when a call starts, or <<>>
PendingBlock(c) ==
    IF c.continued_stream = 0 THEN <<>>
    ELSE <<[stream |-> c.continued_stream, hdr |-> c.continued.hdr]>>

\* the complete header blocks of the frames of data, in arrival order: a
\* HEADERS or PUSH_PROMISE frame with END_HEADERS, or one without it with its
\* CONTINUATION frames up to the one with END_HEADERS
RECURSIVE CompleteBlocks(_, _)
CompleteBlocks(pending, data) ==
    IF data = <<>> THEN <<>>
    ELSE LET u == Head(data)
             opens == u.k = "frame" /\ u.type \in {"HEADERS", "PUSH_PROMISE"}
             goes == u.k = "frame" /\ u.type = "CONTINUATION" /\ pending # <<>>
             block == IF opens THEN [stream |-> u.stream, hdr |-> u.hdr]
                      ELSE [stream |-> pending[1].stream, hdr |-> pending[1].hdr \o u.hdr]
         IN  IF ~(opens \/ goes) THEN CompleteBlocks(pending, Tail(data))
             ELSE IF CNO_FLAG_END_HEADERS \in u.flags
             THEN <<block>> \o CompleteBlocks(<<>>, Tail(data))
             ELSE CompleteBlocks(<<block>>, Tail(data))

\* the next consume call as it runs
Consumed ==
    Call("cno_connection_data_received",
         <<Enter(conn, call'.fail, call'.ub), Items(call'.data)>>)

IsPrefix(a, b) == Len(a) <= Len(b) /\ SubSeq(b, 1, Len(a)) = a

\* C22: the header blocks that a consume call hands to the HPACK decoder are
\* complete blocks of its frames, each once and in arrival order, and a call
\* that ends without an error has handed over every complete block, those for
\* streams that were reset locally or refused included, although no message
\* callback is fired for these.
C22_Preservation ==
    [][(call'.op = "consume" /\ conn.state = "H2_FRAME" /\ conn.buffer = <<>>)
          => /\ IsPrefix(Consumed.dec, CompleteBlocks(PendingBlock(conn), call'.data))
             /\ ret'.code = "OK"
                   => Consumed.dec = CompleteBlocks(PendingBlock(conn), call'.data)
             /\ \A i \in 1 .. Len(Consumed.dec) :
                   LET s == Consumed.dec[i].stream
                   IN  (~HasStream(conn, s) /\ s \notin CallbackIds(cbs', "on_stream_start"))
                          => \A j \in 1 .. Len(cbs') :
                                cbs'[j].cb \in {"on_message_head", "on_message_push",
                                                "on_message_data", "on_message_tail"}
                                   => cbs'[j].id # s]_vars

\* a header block carried by HEADERS and CONTINUATION came for a stream that was
\* reset while it expected HEADERS, and was accepted without a callback
C22_Witness ==
    /\ call.op = "consume" /\ ret.code = "OK" /\ out = <<>>
    /\ \A i \in 1 .. Len(cbs) : cbs[i].cb = "on_frame"
    /\ Len(call.data) = 2
    /\ call.data[1].type = "HEADERS" /\ call.data[2].type = "CONTINUATION"
    /\ ~HasStream(conn, call.data[1].stream)
    /\ RingEntries(conn, call.data[1].stream) # {}
    /\ conn.continued_stream = 0

\* a HEADERS frame for a stream that was refused after GOAWAY was accepted
C22_RefusedReached ==
    /\ call.op = "consume" /\ ret.code = "OK"
    /\ \A i \in 1 .. Len(cbs) : cbs[i].cb = "on_frame"
    /\ Len(call.data) = 1 /\ call.data[1].type = "HEADERS"
    /\ Len(out) = 1 /\ out[1].type = "RST_STREAM" /\ out[1].arg.code = "REFUSED_STREAM"

----------------------------------------------------------------------------
(* The calls of the embedder that write frames.                             *)

\* C23: write_frame with a frame of type DATA returns an error and hands
\* nothing to on_writev, in every state of the connection.
C23_WriteFrameRefusesData ==
    [][(call'.op = "write_frame" /\ call'.frame.type = "DATA")
          => ret'.code # "OK" /\ out' = <<>>]_vars

\* what holds instead: write_frame fails only on a connection that is not in h2
\* mode, or through on_writev
C23_WriteFrameModeOnly ==
    [][(call'.op = "write_frame" /\ call'.frame.type = "DATA")
          => IF conn.mode # "h2" THEN ret'.code = "ASSERTION" /\ out' = <<>>
             ELSE out' # <<>> /\ out'[1].type = "DATA"
                  /\ ret'.code = (IF call'.fail = "on_writev" THEN "CALLBACK" ELSE "OK")]_vars

\* a DATA frame was written by write_frame on an h2 connection
C23_Witness ==
    /\ call.op = "write_frame" /\ call.frame.type = "DATA"
    /\ conn.mode = "h2" /\ ret.code = "OK"
    /\ out # <<>> /\ out[1].type = "DATA"

\* Server push.  A connection of either side, in h1 or h2 mode, whose peer
\* allows push, forbids it or sends an invalid ENABLE_PUSH, and whose embedder
\* answers stream 1 and asks for pushes on streams 1 to 3.

MaxPushCalls == 5

PushSettings ==
    {SettingsFrame(<<>>), SettingsFrame(<<<<ENABLE_PUSH, Wide(1)>>>>),
     SettingsFrame(<<<<ENABLE_PUSH, W0>>>>), SettingsFrame(<<<<ENABLE_PUSH, Wide(2)>>>>),
     SettingsFrame(<<<<ENABLE_PUSH, Wide(1)>>, <<MAX_CONCURRENT_STREAMS, Wide(1)>>>>)}

PushInputs(c) ==
    CASE c.state = "H1_HEAD" /\ ~c.client -> {<<H1Head(0, "GET", "/", <<Hdr("Host", "a")>>)>>}
      [] c.state = "H2_FRAME" ->
            {<<SettingsFrame(<<<<ENABLE_PUSH, W0>>>>)>>,
             <<SettingsFrame(<<<<ENABLE_PUSH, Wide(2)>>>>)>>} \cup
            (IF c.client THEN {}
             ELSE {<<HeadersFrame(3, EH, RequestHeaders)>>,
                   <<Frame("DATA", {CNO_FLAG_END_STREAM}, 1, 0)>>})
      [] OTHER ->
            IF c.client THEN {<<u>> : u \in PushSettings}
            ELSE {<<PrefaceUnit, u, HeadersFrame(1, EH, RequestHeaders)>> : u \in PushSettings}

PushReady == ret.code # "SIGSEGV" /\ hist.calls < MaxPushCalls

PushBegin == PushReady /\ call.op = "init" /\ BeginAs({"h1", "h2"})

\* consume, until it has failed
PushConsume ==
    /\ PushReady /\ conn.state # "CLOSED" /\ conn.buffer = <<>>
    /\ ConsumeOf(PushInputs(conn))

\* the response to stream 1, or the request on it
PushWriteMessage ==
    /\ PushReady /\ call.op = "consume"
    /\ WriteMessageOf({1}, IF conn.client THEN {Message(0, "GET", "/", <<>>, 10)}
                           ELSE {Message(200, "", "", <<>>, 10)}, BOOLEAN)

PushWritePush ==
    /\ PushReady /\ call.op # "init"
    /\ \E stream \in 1 .. MaxStreamId :
          \E fail \in Fails(Call("cno_write_push", <<Enter(conn, "none", StaleUb), stream,
                                           Message(0, "GET", "/", <<>>, 10)>>)) :
             Return(Call("cno_write_push", <<Enter(conn, fail, StaleUb), stream,
                                   Message(0, "GET", "/", <<>>, 10)>>),
                    [op |-> "write_push", stream |-> stream, fail |-> fail])

NextPush ==
    \/ PushBegin
    \/ PushConsume
    \/ PushWriteMessage
    \/ PushWritePush

SpecPush == Init /\ [][NextPush]_vars

\* the next call is write_push and it wrote a frame or created a stream
PushDone ==
    /\ call'.op = "write_push"
    /\ \/ out' # <<>>
       \/ conn'.streams # conn.streams
       \/ CallbackIds(cbs', "on_stream_start") # {}

\* the parent of the next write_push is in the table with its write half open
ParentWritable ==
    /\ HasStream(conn, call'.stream)
    /\ cno_stream_find(conn, call'.stream).w_state # "CLOSED"

\* C24: write_push writes a PUSH_PROMISE and opens a local stream only on a
\* server in h2 mode whose peer has enable_push 1, for a parent that is in the
\* table, is a local stream and has its write half not CLOSED; otherwise it
\* writes no frame and creates no stream.
C24_Push ==
    [][PushDone => /\ ~conn.client /\ conn.mode = "h2"
                   /\ conn.settings[CNO_REMOTE][ENABLE_PUSH] = Wide(1)
                   /\ ParentWritable
                   /\ cno_stream_is_local(conn, call'.stream) = 1]_vars

\* C24 for a parent that the peer has opened, with the enable_push the code
\* tests (not 0)
C24_PushAmended ==
    [][PushDone => /\ ~conn.client /\ conn.mode = "h2"
                   /\ conn.settings[CNO_REMOTE][ENABLE_PUSH] # W0
                   /\ ParentWritable
                   /\ cno_stream_is_local(conn, call'.stream) = 0]_vars

\* a server has promised stream 2 on stream 1, which its peer had opened
C24_Witness ==
    /\ call.op = "write_push" /\ call.stream = 1 /\ ret.code = "OK"
    /\ ~conn.client /\ conn.mode = "h2"
    /\ Len(out) = 1 /\ out[1].type = "PUSH_PROMISE" /\ out[1].stream = 1
    /\ out[1].arg.promised = 2
    /\ HasStream(conn, 2) /\ HasStream(conn, 1)
    /\ CbNames(cbs) = <<"on_stream_start", "on_message_head", "on_message_tail">>

\* write_push was asked for a parent that the server itself had opened
C24_LocalParentReached ==
    /\ call.op = "write_push" /\ call.stream = 2 /\ ret.code = "OK"
    /\ HasStream(conn, 2) /\ out = <<>> /\ cbs = <<>>
    /\ conn.settings[CNO_REMOTE][ENABLE_PUSH] # W0

----------------------------------------------------------------------------
(* Pushed requests.                                                         *)

\* the PUSH_PROMISE frames of the next consume call
PromiseFrames ==
    {call'.data[i] : i \in {j \in 1 .. Len(call'.data) :
                              call'.data[j].k = "frame" /\ call'.data[j].type = "PUSH_PROMISE"}}

\* the on_message_push callbacks of the next call, as <<first argument, last
\* argument>>
PushCallbacks ==
    {<<cbs'[i].id, cbs'[i].arg.last>> :
        i \in {j \in 1 .. Len(cbs') : cbs'[j].cb = "on_message_push"}}

\* the next call is a consume call that accepted all it was given
ConsumeAccepted ==
    call'.op = "consume" /\ conn.state = "H2_FRAME" /\ ret'.code = "OK"

----------------------------------------------------------------------------
(* Streams after GOAWAY.                                                    *)

\* the last call wrote a GOAWAY frame that on_writev accepted
GoawayJustSent ==
    /\ call.op \in {"shutdown", "write_reset", "consume"}
    /\ call.fail # "on_writev"
    /\ \E i \in 1 .. Len(out) : out[i].type = "GOAWAY"

\* the next call opens a stream for the peer
PeerStreamOpened ==
    \E i \in 1 .. Len(cbs') : cbs'[i].cb = "on_stream_start" /\ cbs'[i].arg.local = CNO_REMOTE

\* C26: once a GOAWAY frame was written, by shutdown, by write_reset with
\* stream 0 or by a connection error, no inbound HEADERS frame creates a stream:
\* on_stream_start is not fired for an id of the peer, whatever last_stream of
\* the peer was when the GOAWAY was sent.  Stated for the consume call that
\* follows the call that wrote the GOAWAY.
C26_NoStreamAfterGoaway ==
    [][(GoawayJustSent /\ call'.op = "consume") => ~PeerStreamOpened]_vars

\* what the code keeps: no stream is opened by HEADERS while goaway_sent, the
\* last stream id that the first GOAWAY carried, is not 0
C26_NoStreamAfterMarkedGoaway ==
    [][(conn.goaway_sent # 0 /\ call'.op = "consume" /\ ~conn.client)
          => ~PeerStreamOpened]_vars

\* a server that had written GOAWAY after the peer's stream 1 refused stream 3
C26_Witness ==
    /\ call.op = "consume" /\ ret.code = "OK" /\ ~conn.client
    /\ conn.goaway_sent = 1
    /\ Len(call.data) = 1 /\ call.data[1].type = "HEADERS" /\ call.data[1].stream = 3
    /\ Len(out) = 1 /\ out[1].type = "RST_STREAM" /\ out[1].arg.code = "REFUSED_STREAM"
    /\ ~HasStream(conn, 3)

----------------------------------------------------------------------------
(* HEADERS that depend on themselves.                                       *)

\* the next consume call delivers one HEADERS frame whose priority block names
\* the frame's own stream, which is in the table, and no callback fails
SelfDependentOnStream ==
    /\ call'.op = "consume" /\ call'.fail = "none"
    /\ conn.state = "H2_FRAME" /\ conn.buffer = <<>> /\ conn.continued_stream = 0
    /\ Len(call'.data) = 1 /\ SelfDependent(call'.data[1])
    /\ HasStream(conn, call'.data[1].stream)

\* the callbacks of the next call that name stream s
CallbacksOf(s, names) ==
    {i \in 1 .. Len(cbs') : cbs'[i].cb \in names /\ cbs'[i].id = s}

\* C27: a HEADERS frame with the PRIORITY flag that depends on its own stream
\* s, which exists, resets s with RST_STREAM(PROTOCOL_ERROR) and destroys it,
\* and the frame is not processed further: no on_message_head, on_message_data
\* or on_message_tail for s, and s is ended once.
C27_SelfDependentHeaders ==
    [][SelfDependentOnStream =>
          LET s == call'.data[1].stream
          IN  /\ ret'.code = "OK"
              /\ out' = <<OutFrame("RST_STREAM", {}, s, 4, [code |-> "PROTOCOL_ERROR"])>>
              /\ ~HasStream(conn', s)
              /\ \A i \in 1 .. Len(cbs') :
                    cbs'[i].cb \notin {"on_message_head", "on_message_data",
                                       "on_message_tail"}
              /\ Cardinality(CallbacksOf(s, {"on_stream_end"})) = 1]_vars

\* what the code does keep: the stream is reset and leaves the table
C27_SelfDependentReset ==
    [][SelfDependentOnStream =>
          LET s == call'.data[1].stream
          IN  /\ out' # <<>>
              /\ out'[1] = OutFrame("RST_STREAM", {}, s, 4, [code |-> "PROTOCOL_ERROR"])
              /\ ~HasStream(conn', s)
              /\ CallbacksOf(s, {"on_stream_end"}) # {}]_vars

\* the frame was processed after its stream was freed: a message callback fired
\* after on_stream_end
C27_Witness ==
    /\ call.op = "consume" /\ call.fail = "none"
    /\ Len(call.data) = 1 /\ SelfDependent(call.data[1])
    /\ \E i \in 1 .. Len(cbs) : \E j \in 1 .. Len(cbs) :
          /\ i < j /\ cbs[i].cb = "on_stream_end"
          /\ cbs[j].cb \in {"on_message_head", "on_message_tail"}

----------------------------------------------------------------------------
(* The declared length of a message.                                        *)

\* the frames of data for stream s
RECURSIVE FramesFor(_, _)
FramesFor(data, s) ==
    IF data = <<>> THEN <<>>
    ELSE (IF Head(data).k = "frame" /\ Head(data).stream = s
             /\ Head(data).type \in {"HEADERS", "DATA"}
          THEN <<Head(data)>> ELSE <<>>) \o FramesFor(Tail(data), s)

\* the values of the content-length headers of a header list
LengthsOf(hdr) ==
    {cno_parse_uint(hdr[i].value) : i \in {j \in 1 .. Len(hdr) : hdr[j].name = "content-length"}}

\* the payload octets of the DATA frames among fs
RECURSIVE PayloadOctets(_)
PayloadOctets(fs) ==
    IF fs = <<>> THEN 0
    ELSE (IF Head(fs).type = "DATA" THEN Head(fs).len ELSE 0) + PayloadOctets(Tail(fs))

\* the next consume call delivers, with no callback failing, a whole message
\* for stream s that was still to begin: HEADERS that declare a length, DATA
\* frames, and END_STREAM on the last of these frames or on trailers
WholeMessage(s) ==
    LET fs == FramesFor(call'.data, s)
    IN  /\ call'.op = "consume" /\ call'.fail = "none"
        /\ conn.state = "H2_FRAME" /\ conn.buffer = <<>> /\ conn.continued_stream = 0
        /\ \A i \in 1 .. Len(call'.data) :
              call'.data[i].k = "frame" /\ call'.data[i].stream = s
              /\ call'.data[i].type \in {"HEADERS", "DATA"}
              /\ CNO_FLAG_PRIORITY \notin call'.data[i].flags
        /\ IF conn.client
           THEN HasStream(conn, s) /\ cno_stream_find(conn, s).r_state = "HEADERS"
           ELSE ~HasStream(conn, s) /\ s > conn.last_stream[CNO_REMOTE] /\ s % 2 = 1
                /\ conn.goaway_sent = 0
        /\ fs # <<>>
        /\ fs[1].type = "HEADERS" /\ CNO_FLAG_END_HEADERS \in fs[1].flags
        /\ Cardinality(LengthsOf(fs[1].hdr)) = 1
        /\ \A i \in 2 .. Len(fs) - 1 : fs[i].type = "DATA"
        /\ \A i \in 1 .. Len(fs) : (CNO_FLAG_END_STREAM \in fs[i].flags) = (i = Len(fs))
        /\ fs[Len(fs)].type = "HEADERS" => CNO_FLAG_END_HEADERS \in fs[Len(fs)].flags

\* the length the message declares is not the number of its DATA octets
LengthDiffers(s) ==
    LengthsOf(FramesFor(call'.data, s)[1].hdr) # {PayloadOctets(FramesFor(call'.data, s))}

\* stream s carries the response to a HEAD request
HeadResponse(s) ==
    HasStream(conn, s) /\ cno_stream_find(conn, s).reading_head_response

\* the next call resets s with PROTOCOL_ERROR and fires no on_message_tail for it
LengthRejected(s) ==
    /\ \E i \in 1 .. Len(out') :
          out'[i] = OutFrame("RST_STREAM", {}, s, 4, [code |-> "PROTOCOL_ERROR"])
    /\ CallbacksOf(s, {"on_message_tail"}) = {}

\* C28: when END_STREAM, on DATA, on the first HEADERS or on trailers, closes
\* the read half of a stream whose message declared a content-length that is
\* not the number of DATA octets received, and the message is not the response
\* to a HEAD request, the stream is reset with RST_STREAM(PROTOCOL_ERROR) and
\* on_message_tail is not fired for it.
C28_LengthCheck ==
    [][\A s \in 1 .. MaxStreamId :
          (WholeMessage(s) /\ LengthDiffers(s) /\ ~HeadResponse(s)) => LengthRejected(s)]_vars

\* what the code keeps: the length is compared when END_STREAM comes on DATA or on the
\* first HEADERS and the message is too short, or too long by two or more
C28_LengthCheckShort ==
    [][\A s \in 1 .. MaxStreamId :
          LET fs == FramesFor(call'.data, s)
          IN  (/\ WholeMessage(s) /\ LengthDiffers(s) /\ ~HeadResponse(s)
               /\ (Len(fs) > 1 => fs[Len(fs)].type = "DATA")
               /\ LengthsOf(fs[1].hdr) # {PayloadOctets(fs) - 1})
                 => LengthRejected(s)]_vars

\* a request that declared 3 octets was closed by a DATA frame after 2 octets
\* and reset
C28_Witness ==
    /\ call.op = "consume" /\ call.fail = "none" /\ ret.code = "OK"
    /\ Len(call.data) >= 1
    /\ LengthsOf(call.data[1].hdr) = {3}
    /\ call.data[Len(call.data)].type = "DATA" /\ call.data[Len(call.data)].len = 2
    /\ \E i \in 1 .. Len(out) :
          out[i].type = "RST_STREAM" /\ out[i].arg.code = "PROTOCOL_ERROR"
    /\ \A i \in 1 .. Len(cbs) : cbs[i].cb # "on_message_tail"

----------------------------------------------------------------------------
(* Informational responses.                                                 *)

\* the :status values of a header list
StatusOf(hdr) ==
    {cno_parse_uint(hdr[i].value) : i \in {j \in 1 .. Len(hdr) : hdr[j].name = ":status"}}

\* the next consume call gives a client, with no callback failing, one complete
\* HEADERS frame with a 1xx status for a stream that awaits its response
InformationalHead ==
    /\ call'.op = "consume" /\ call'.fail = "none" /\ conn.client
    /\ conn.state = "H2_FRAME" /\ conn.buffer = <<>> /\ conn.continued_stream = 0
    /\ Len(call'.data) = 1
    /\ call'.data[1].k = "frame" /\ call'.data[1].type = "HEADERS"
    /\ CNO_FLAG_END_HEADERS \in call'.data[1].flags
    /\ CNO_FLAG_PRIORITY \notin call'.data[1].flags
    /\ \E code \in StatusOf(call'.data[1].hdr) : cno_is_informational(code)
    /\ HasStream(conn, call'.data[1].stream)
    /\ cno_stream_find(conn, call'.data[1].stream).r_state = "HEADERS"

\* the next call resets s with PROTOCOL_ERROR and fires neither on_message_head
\* nor on_message_tail for it
HeadRejected(s) ==
    /\ out' = <<OutFrame("RST_STREAM", {}, s, 4, [code |-> "PROTOCOL_ERROR"])>>
    /\ CallbacksOf(s, {"on_message_head", "on_message_tail"}) = {}

\* C29: a 1xx response HEADERS frame that carries END_STREAM or declares a
\* content-length is rejected with RST_STREAM(PROTOCOL_ERROR) on its stream, and
\* neither on_message_head nor on_message_tail is fired for it.
C29_Informational ==
    [][(InformationalHead /\ (CNO_FLAG_END_STREAM \in call'.data[1].flags
                              \/ LengthsOf(call'.data[1].hdr) # {}))
          => HeadRejected(call'.data[1].stream)]_vars

\* what the code keeps: the part of C29 about a declared content-length
C29_InformationalLength ==
    [][(InformationalHead /\ LengthsOf(call'.data[1].hdr) # {})
          => HeadRejected(call'.data[1].stream)]_vars

\* a 1xx response with END_STREAM and no content-length was delivered and has
\* closed the read half
C29_Witness ==
    /\ call.op = "consume" /\ call.fail = "none" /\ conn.client /\ ret.code = "OK"
    /\ Len(call.data) = 1 /\ call.data[1].type = "HEADERS"
    /\ StatusOf(call.data[1].hdr) = {100}
    /\ CNO_FLAG_END_STREAM \in call.data[1].flags
    /\ \E i \in 1 .. Len(cbs) : cbs[i].cb = "on_message_head" /\ cbs[i].arg.msg.code = 100
    /\ \E i \in 1 .. Len(cbs) : cbs[i].cb = "on_message_tail"

----------------------------------------------------------------------------
(* The cap on CONTINUATION frames.                                          *)

\* the next consume call delivers, with no callback failing, a HEADERS or
\* PUSH_PROMISE frame without END_HEADERS that is followed by CONTINUATION
\* frames for the same stream only, none but the last with END_HEADERS
ContinuedBlock ==
    /\ call'.op = "consume" /\ call'.fail = "none"
    /\ conn.state = "H2_FRAME" /\ conn.buffer = <<>> /\ conn.continued_stream = 0
    /\ conn.goaway_sent = 0
    /\ Len(call'.data) >= 2
    /\ call'.data[1].k = "frame" /\ call'.data[1].type \in {"HEADERS", "PUSH_PROMISE"}
    /\ CNO_FLAG_END_HEADERS \notin call'.data[1].flags
    /\ CNO_FLAG_PRIORITY \notin call'.data[1].flags
    /\ \A i \in 2 .. Len(call'.data) :
          /\ call'.data[i].k = "frame" /\ call'.data[i].type = "CONTINUATION"
          /\ call'.data[i].stream = call'.data[1].stream
          /\ i < Len(call'.data) => CNO_FLAG_END_HEADERS \notin call'.data[i].flags

\* the octets of the block up to and with frame i of the next call
RECURSIVE BlockOctets(_)
BlockOctets(i) == IF i = 0 THEN 0 ELSE call'.data[i].len + BlockOctets(i - 1)

\* the next call ends with GOAWAY(ENHANCE_YOUR_CALM) and returns PROTOCOL
Calmed ==
    /\ ret'.code = "PROTOCOL"
    /\ out' # <<>> /\ out'[Len(out')].type = "GOAWAY"
    /\ out'[Len(out')].arg.code = "ENHANCE_YOUR_CALM"

\* the frame that opens the block is accepted when it is consumed alone
OpeningAccepted ==
    Ok(Call("cno_connection_data_received",
            <<Enter(conn, "none", StaleUb), Items(SubSeq(call'.data, 1, 1))>>))

\* C30: a header block of a HEADERS or PUSH_PROMISE frame without END_HEADERS
\* and more than CNO_MAX_CONTINUATIONS CONTINUATION frames for the same stream,
\* of any payload size, empty ones included, makes consume write
\* GOAWAY(ENHANCE_YOUR_CALM) and return PROTOCOL.
C30_ContinuationCap ==
    [][(ContinuedBlock /\ OpeningAccepted /\ Len(call'.data) - 1 > CNO_MAX_CONTINUATIONS)
          => Calmed]_vars

\* what the code keeps: the cap is on the octets collected, CNO_MAX_CONTINUATIONS
\* times LOCAL.max_frame_size, whatever the number of frames: no block within
\* it is refused for its size, and the frame that exceeds it is, once the
\* frames before it were accepted
C30_OctetCap ==
    [][ContinuedBlock =>
          LET cap == CNO_MAX_CONTINUATIONS * Narrow(conn.settings[CNO_LOCAL][MAX_FRAME_SIZE])
          IN  /\ Calmed => \E i \in 2 .. Len(call'.data) : BlockOctets(i) > cap
              /\ (Ok(Reached) /\ BlockOctets(Len(call'.data)) > cap) => Calmed]_vars

\* a block of a HEADERS frame, four empty CONTINUATION frames and the
\* CONTINUATION frame that ends it was accepted
C30_Witness ==
    /\ call.op = "consume" /\ call.fail = "none" /\ ret.code = "OK"
    /\ Len(call.data) = CNO_MAX_CONTINUATIONS + 3
    /\ call.data[1].type = "HEADERS"
    /\ \A i \in 2 .. Len(call.data) - 1 :
          call.data[i].type = "CONTINUATION" /\ call.data[i].len = 0
    /\ CNO_FLAG_END_HEADERS \in call.data[Len(call.data)].flags
    /\ conn.continued_stream = 0

\* a block of three full CONTINUATION frames was refused
C30_CapReached ==
    /\ call.op = "consume" /\ call.fail = "none" /\ ret.code = "PROTOCOL"
    /\ Len(call.data) = 4 /\ call.data[4].type = "CONTINUATION"
    /\ out # <<>> /\ out[Len(out)].arg.code = "ENHANCE_YOUR_CALM"

----------------------------------------------------------------------------
(* DATA frames received by a server whose embedder has set a small receive  *)
(* window, with and without manual_flow_control, and the calls that act on  *)
(* the stream the frames are for.                                           *)

MaxDataCalls == 6

\* the streams whose octets are counted
DataStreams == {1, 3}

\* a DATA frame of len octets of which pad are padding after the Pad Length octet
PaddedDataFrame(stream, flags, len, pad) ==
    [Frame("DATA", flags \cup {CNO_FLAG_PADDED}, stream, len) EXCEPT !.pad = pad]

\* the DATA frames of the peer
DataFrames ==
    {Frame("DATA", {}, 1, 3), Frame("DATA", {CNO_FLAG_END_STREAM}, 1, 3),
     Frame("DATA", {}, 1, 6), Frame("DATA", {}, 1, 0),
     PaddedDataFrame(1, {}, 3, 1), PaddedDataFrame(1, {}, 6, 2),
     PaddedDataFrame(1, {}, 1, 0), PaddedDataFrame(1, {}, 3, 5),
     Frame("DATA", {}, 3, 3), Frame("DATA", {}, 2, 3)}

\* what the peer sends: the preface with one or two requests, then one DATA
\* frame a call; after a failed call the call is repeated with no new octets
DataInputs(c) ==
    CASE c.state = "H2_PREFACE" ->
            {<<PrefaceUnit, SettingsFrame(<<>>), HeadersFrame(1, EH, RequestHeaders)>>,
             <<PrefaceUnit, SettingsFrame(<<>>), HeadersFrame(1, EH, RequestHeaders),
               HeadersFrame(3, EHS, RequestHeaders)>>}
      [] c.state = "H2_FRAME" -> IF c.buffer = <<>> THEN {<<f>> : f \in DataFrames}
                                 ELSE {<<>>}
      [] OTHER -> {}

\* the settings the embedder configures: a receive window of 5 octets
DataConfigs == {[CNO_SETTINGS_INITIAL EXCEPT ![INITIAL_WINDOW_SIZE] = Wide(5)]}

RECURSIVE DeliveredIn(_, _)
\* the octets that on_message_data was given for stream s among the callbacks cs
DeliveredIn(cs, s) ==
    IF cs = <<>> THEN 0
    ELSE (IF Head(cs).cb = "on_message_data" /\ Head(cs).id = s THEN Head(cs).arg.len ELSE 0)
         + DeliveredIn(Tail(cs), s)

RECURSIVE GrantedIn(_, _)
\* the increments of the WINDOW_UPDATE frames for stream s among the frames fs
GrantedIn(fs, s) ==
    IF fs = <<>> THEN 0
    ELSE (IF Head(fs).type = "WINDOW_UPDATE" /\ Head(fs).stream = s
          THEN Narrow(Head(fs).arg.increment) ELSE 0)
         + GrantedIn(Tail(fs), s)

\* the callbacks of the call that returned 0: all but the last when the call
\* ended with the failure of a callback other than on_writev
Taken(r) ==
    IF r.ret = "CALLBACK" /\ r.fail # "on_writev" THEN SubSeq(r.cbs, 1, Len(r.cbs) - 1)
    ELSE r.cbs

\* the call returns r; besides what Return keeps, the history counts per stream
\* the octets that on_message_data took and the credit that
\* cno_increase_flow_window announced, and tells whether a consume call failed
DataReturn(r, op) ==
    /\ conn' = r.c
    /\ cbs' = r.cbs
    /\ out' = r.out
    /\ ret' = [code |-> r.ret, n |-> r.n]
    /\ call' = op
    /\ hist' = LET a == Absorb(hist, cbs, op.op = "begin" /\ conn.state = "CLOSED")
               IN  [calls |-> a.calls, credit |-> Credit(a.credit, r, op), begun |-> a.begun,
                    started |-> a.started, headed |-> a.headed, tailed |-> a.tailed,
                    ended |-> a.ended,
                    delivered |-> [s \in DataStreams |->
                                      hist.delivered[s] + DeliveredIn(Taken(r), s)],
                    granted |-> [s \in DataStreams |->
                                    hist.granted[s] +
                                    IF op.op = "increase_flow_window"
                                    THEN GrantedIn(r.out, s) ELSE 0],
                    aborted |-> hist.aborted \/ (op.op = "consume" /\ r.ret # "OK")]

InitData ==
    /\ conn \in {[InitConnection(FALSE) EXCEPT !.manual_flow_control = manual] :
                    manual \in BOOLEAN}
    /\ cbs = <<>>
    /\ out = <<>>
    /\ ret = [code |-> "OK", n |-> 0]
    /\ call = [op |-> "init"]
    /\ hist = [calls |-> 0, credit |-> CNO_SETTINGS_STANDARD[INITIAL_WINDOW_SIZE],
               begun |-> FALSE, started |-> {}, headed |-> {}, tailed |-> {},
               ended |-> {},
               delivered |-> [s \in DataStreams |-> 0],
               granted |-> [s \in DataStreams |-> 0],
               aborted |-> FALSE]

\* the embedder goes on after a call that succeeded and after one that a
\* callback of its own has failed
DataReady == ret.code \in {"OK", "CALLBACK"} /\ hist.calls < MaxDataCalls

\* cno_connection_set_config before begin
DataConfigure ==
    /\ DataReady /\ call.op = "init"
    /\ \E settings \in DataConfigs :
          \E fail \in Fails(Call("cno_connection_set_config",
                                 <<Enter(conn, "none", StaleUb), settings>>)) :
             DataReturn(Call("cno_connection_set_config",
                             <<Enter(conn, fail, StaleUb), settings>>),
                        [op |-> "configure", settings |-> settings, fail |-> fail])

DataBegin ==
    /\ DataReady /\ call.op = "configure"
    /\ \E fail \in Fails(Call("cno_connection_made", <<Enter(conn, "none", StaleUb), "h2">>)) :
          DataReturn(Call("cno_connection_made", <<Enter(conn, fail, StaleUb), "h2">>),
                     [op |-> "begin", version |-> "h2", fail |-> fail])

DataConsume ==
    /\ DataReady /\ conn.state # "CLOSED"
    /\ call.op = "begin" => ret.code = "OK"
    /\ \E data \in DataInputs(conn) :
          \E fail \in Fails(Call("cno_connection_data_received",
                                 <<Enter(conn, "none", StaleUb), Items(data)>>)) :
             DataReturn(Call("cno_connection_data_received",
                             <<Enter(conn, fail, StaleUb), Items(data)>>),
                        [op |-> "consume", data |-> data, ub |-> StaleUb, fail |-> fail])

\* cno_increase_flow_window for stream 1
DataIncreaseFlowWindow ==
    /\ DataReady /\ conn.state = "H2_FRAME"
    /\ \E bytes \in {3} :
          \E fail \in Fails(Call("cno_increase_flow_window",
                                 <<Enter(conn, "none", StaleUb), 1, bytes>>)) :
             DataReturn(Call("cno_increase_flow_window",
                             <<Enter(conn, fail, StaleUb), 1, bytes>>),
                        [op |-> "increase_flow_window", stream |-> 1, bytes |-> bytes,
                         fail |-> fail])

\* cno_write_reset for stream 1
DataWriteReset ==
    /\ DataReady /\ conn.state = "H2_FRAME" /\ HasStream(conn, 1)
    /\ \E fail \in Fails(Call("cno_write_reset", <<Enter(conn, "none", StaleUb), 1, "CANCEL">>)) :
          DataReturn(Call("cno_write_reset", <<Enter(conn, fail, StaleUb), 1, "CANCEL">>),
                     [op |-> "write_reset", stream |-> 1, fail |-> fail])

NextData ==
    \/ DataConfigure
    \/ DataBegin
    \/ DataConsume
    \/ DataIncreaseFlowWindow
    \/ DataWriteReset

SpecData == InitData /\ [][NextData]_vars

\* the next call is a consume call of one DATA frame that is not empty and whose
\* padding is well formed, on a connection that waits for a frame with nothing
\* buffered, and on_frame does not refuse the frame
DataArrives ==
    /\ call'.op = "consume" /\ Len(call'.data) = 1
    /\ conn.state = "H2_FRAME" /\ conn.buffer = <<>> /\ conn.continued_stream = 0
    /\ call'.data[1].k = "frame" /\ call'.data[1].type = "DATA"
    /\ call'.data[1].len # 0
    /\ call'.data[1].len <= Narrow(conn.settings[CNO_LOCAL][MAX_FRAME_SIZE])
    /\ CNO_FLAG_PADDED \in call'.data[1].flags => call'.data[1].pad + 1 <= call'.data[1].len
    /\ call'.fail # "on_frame"

\* C31: for every inbound DATA frame of non-zero length with well-formed
\* padding the first frame written is a WINDOW_UPDATE for stream 0 whose
\* increment is the length of the frame with its padding, whether its stream is
\* open, unknown, reset or in the wrong read state; when that write fails
\* nothing else was done for the frame: no callback but on_frame, no other
\* frame, no change to the streams.
C31_ConnectionCredit ==
    [][DataArrives =>
          /\ out' # <<>>
          /\ out'[1] = WindowUpdate(0, call'.data[1].len)
          /\ call'.fail = "on_writev" =>
                /\ Len(out') = 1 /\ ret'.code = "CALLBACK"
                /\ \A i \in 1 .. Len(cbs') : cbs'[i].cb = "on_frame"
                /\ conn'.streams = conn.streams
                /\ conn'.recently_reset = conn.recently_reset]_vars

\* a padded DATA frame of 6 octets for stream 1, which the embedder had reset,
\* was answered with a WINDOW_UPDATE of 6 for the connection and nothing else
C31_Witness ==
    /\ call.op = "consume" /\ call.fail = "none" /\ ret.code = "OK"
    /\ call.data = <<PaddedDataFrame(1, {}, 6, 2)>>
    /\ ~HasStream(conn, 1) /\ 1 \in hist.ended
    /\ out = <<WindowUpdate(0, 6)>>
    /\ \A i \in 1 .. Len(cbs) : cbs[i].cb = "on_frame"

\* the same for a stream whose read half is closed: the WINDOW_UPDATE comes
\* before the RST_STREAM
C31_WrongStateReached ==
    /\ call.op = "consume" /\ call.fail = "none"
    /\ call.data = <<Frame("DATA", {}, 3, 3)>>
    /\ Len(out) = 2 /\ out[1] = WindowUpdate(0, 3) /\ out[2].type = "RST_STREAM"

\* the octets of the next DATA frame without its padding
PayloadOf(f) == IF CNO_FLAG_PADDED \in f.flags THEN f.len - (f.pad + 1) ELSE f.len

\* what is left of the receive window of stream s
RemainingWindow(c, s) ==
    Narrow(wAdd(cno_stream_find(c, s).window_recv, c.settings[CNO_LOCAL][INITIAL_WINDOW_SIZE]))

\* under manual_flow_control the next call, in which no callback fails, gives a
\* DATA frame to a stream that is in the table with its read half in DATA
ManualDataArrives ==
    /\ DataArrives /\ call'.fail = "none"
    /\ conn.manual_flow_control
    /\ HasStream(conn, call'.data[1].stream)
    /\ cno_stream_find(conn, call'.data[1].stream).r_state = "DATA"

\* the stream-level WINDOW_UPDATE frames among the frames written
StreamUpdates(fs) == SelectSeq(fs, LAMBDA f : f.type = "WINDOW_UPDATE" /\ f.stream # 0)

\* on_message_data took no more octets of a stream than the local window and
\* the credit announced for it allow
WithinWindow ==
    \A s \in DataStreams :
       hist.delivered[s] <= Narrow(conn.settings[CNO_LOCAL][INITIAL_WINDOW_SIZE])
                            + hist.granted[s]

\* a frame longer than what is left of the window is answered with
\* RST_STREAM(FLOW_CONTROL_ERROR) and not delivered
OverWindowRefused ==
    (ManualDataArrives /\
     call'.data[1].len > RemainingWindow(conn, call'.data[1].stream))
    => /\ out' = <<WindowUpdate(0, call'.data[1].len),
                   OutFrame("RST_STREAM", {}, call'.data[1].stream, 4,
                            [code |-> "FLOW_CONTROL_ERROR"])>>
       /\ DeliveredIn(cbs', call'.data[1].stream) = 0
       /\ ~HasStream(conn', call'.data[1].stream)

\* an accepted frame that does not end the stream takes its payload from the
\* window, and only its padding is given back by a WINDOW_UPDATE for the stream
PaddingRefilled ==
    (ManualDataArrives /\
     call'.data[1].len <= RemainingWindow(conn, call'.data[1].stream) /\
     CNO_FLAG_END_STREAM \notin call'.data[1].flags)
    => LET f == call'.data[1]
       IN  /\ DeliveredIn(cbs', f.stream) = PayloadOf(f)
           /\ StreamUpdates(out') =
                 IF f.len = PayloadOf(f) THEN <<>>
                 ELSE <<WindowUpdate(f.stream, f.len - PayloadOf(f))>>
           /\ HasStream(conn', f.stream)
           /\ RemainingWindow(conn', f.stream) = RemainingWindow(conn, f.stream) - PayloadOf(f)

C32_ReceiveWindowRepeated ==
    [](conn.manual_flow_control => WithinWindow)

C32_PaddingReached ==
    /\ conn.manual_flow_control /\ ~hist.aborted
    /\ call.op = "consume" /\ call.data = <<PaddedDataFrame(1, {}, 3, 1)>>
    /\ ret.code = "OK" /\ DeliveredIn(cbs, 1) = 1
    /\ out = <<WindowUpdate(0, 3), WindowUpdate(1, 2)>>

\* a frame longer than what was left of the window was refused
C32_RefusedReached ==
    /\ conn.manual_flow_control /\ ~hist.aborted
    /\ call.op = "consume" /\ call.data = <<Frame("DATA", {}, 1, 3)>>
    /\ hist.delivered[1] = 3 /\ ~HasStream(conn, 1)
    /\ Len(out) = 2 /\ out[2].arg.code = "FLOW_CONTROL_ERROR"

----------------------------------------------------------------------------
(* The REMOTE settings after the first SETTINGS frame of the peer.          *)

\* the next consume call, in which no callback fails, brings the first frame
\* of the peer to a connection in h2 mode that has nothing buffered
FirstFrameArrives ==
    /\ call'.op = "consume" /\ call'.fail = "none"
    /\ conn.mode = "h2" /\ conn.state \in {"H2_PREFACE", "H2_SETTINGS"}
    /\ conn.buffer = <<>>
    /\ IF conn.state = "H2_PREFACE" /\ ~conn.client
       THEN Len(call'.data) >= 2 /\ call'.data[1].k = "preface"
       ELSE Len(call'.data) >= 1

\* that frame
FirstFrame == call'.data[IF conn.state = "H2_PREFACE" /\ ~conn.client THEN 2 ELSE 1]

\* it is a SETTINGS frame without flags, and the only SETTINGS frame of the call
FirstIsSettings ==
    /\ FirstFrame.k = "frame" /\ FirstFrame.type = "SETTINGS" /\ FirstFrame.flags = {}
    /\ Cardinality({i \in 1 .. Len(call'.data) :
                       call'.data[i].k = "frame" /\ call'.data[i].type = "SETTINGS"}) = 1

\* the parameters a SETTINGS frame names
Mentioned(u) == {u.entries[i][1] : i \in 1 .. Len(u.entries)}

\* after the call every REMOTE parameter the first frame did not name has the
\* value of the preset
SeededWith(preset) ==
    \A p \in (1 .. CNO_SETTINGS_UNDEFINED - 1) \ Mentioned(FirstFrame) :
       conn'.settings[CNO_REMOTE][p] = preset[p]

\* C33: in state H2_SETTINGS the first frame must be a SETTINGS frame with no
\* flags, otherwise consume returns PROTOCOL; once that frame has been
\* processed every REMOTE parameter it did not mention has its value of
\* CNO_SETTINGS_INITIAL (enable_push 1, max_concurrent_streams 1024), not of
\* CNO_SETTINGS_CONSERVATIVE.
C33_InitialRemote ==
    [][FirstFrameArrives =>
          IF FirstIsSettings
          THEN ret'.code = "OK" => SeededWith(CNO_SETTINGS_INITIAL)
          ELSE (FirstFrame.k # "frame" \/ FirstFrame.type # "SETTINGS" \/
                FirstFrame.flags # {}) => ret'.code = "PROTOCOL"]_vars

\* what the code does: the parameters that were not mentioned keep the values
\* of CNO_SETTINGS_CONSERVATIVE that cno_connection_init gave them
C33_ConservativeRemote ==
    [][FirstFrameArrives =>
          IF FirstIsSettings
          THEN ret'.code = "OK" => SeededWith(CNO_SETTINGS_CONSERVATIVE)
          ELSE (FirstFrame.k # "frame" \/ FirstFrame.type # "SETTINGS" \/
                FirstFrame.flags # {}) => ret'.code = "PROTOCOL"]_vars

\* a server has processed an empty first SETTINGS frame and holds enable_push 0
\* and max_concurrent_streams 100 for its peer
C33_Witness ==
    /\ ~conn.client /\ call.op = "consume" /\ call.fail = "none" /\ ret.code = "OK"
    /\ call.data = <<PrefaceUnit, SettingsFrame(<<>>)>>
    /\ conn.state = "H2_FRAME"
    /\ conn.settings[CNO_REMOTE][ENABLE_PUSH] = W0
    /\ conn.settings[CNO_REMOTE][MAX_CONCURRENT_STREAMS] = Wide(100)

\* a first frame that is not SETTINGS was refused
C33_RefusedReached ==
    /\ call.op = "consume" /\ call.fail = "none" /\ ret.code = "PROTOCOL"
    /\ call.data = <<PrefaceUnit, Frame("PING", {}, 0, 8)>>
    /\ out = <<>> /\ conn.state = "H2_SETTINGS"

----------------------------------------------------------------------------
(* Chunk-size lines: a client in h1 mode that has sent a request is given   *)
(* the head of a chunked response and the size line of its first chunk,     *)
(* then octets of the body.                                                 *)

MaxChunkCalls == 5

\* the size fields of the lines, with an extension in one of them
ChunkLines ==
    {<<"0">>, <<"5">>, <<"0", "5">>, <<"1", "0">>, <<"1", "f">>, <<"A">>, <<"a">>, <<"F">>,
     <<"1", "F">>, <<"g">>, <<"1", "g">>, <<"-">>, <<"5", ";", "x">>,
     <<"1">> \o [i \in 1 .. 16 |-> "0"],
     <<"1", "9">> \o [i \in 1 .. 15 |-> "0"]}

ChunkInputs(c) ==
    CASE c.state = "H1_HEAD" ->
           {<<ChunkedHead(200)>> \o Octets(line) \o CRLF : line \in ChunkLines}
      [] c.state \in {"H1_CHUNK", "H1_CHUNK_BODY", "H1_CHUNK_TAIL", "H1_TRAILERS"} ->
           {<<Octet("x")>>, CRLF, <<Octet("1")>> \o CRLF,
            <<Octet("x"), Octet("y")>> \o CRLF \o <<Octet("0")>> \o CRLF}
      [] OTHER -> {}

InitChunk ==
    /\ conn = InitConnection(TRUE)
    /\ cbs = <<>>
    /\ out = <<>>
    /\ ret = [code |-> "OK", n |-> 0]
    /\ call = [op |-> "init"]
    /\ hist = [calls |-> 0, credit |-> CNO_SETTINGS_STANDARD[INITIAL_WINDOW_SIZE],
               begun |-> FALSE, started |-> {}, headed |-> {}, tailed |-> {},
               ended |-> {}]

ChunkReady ==
    /\ hist.calls < MaxChunkCalls
    /\ ret.code \notin {"SIGSEGV", "CALLBACK"}
    /\ call.op \in {"begin", "consume"} => ret.code = "OK"

ChunkBegin == ChunkReady /\ call.op = "init" /\ BeginAs({"h1"})

\* the client writes its request on stream 1
ChunkWriteMessage ==
    /\ ChunkReady /\ call.op = "begin"
    /\ WriteMessageOf({1}, {Message(0, "GET", "/", <<>>, 10)}, {TRUE})

ChunkConsume ==
    /\ ChunkReady /\ call.op \in {"write_message", "consume"}
    /\ ConsumeOf(ChunkInputs(conn))

NextChunk ==
    \/ ChunkBegin
    \/ ChunkWriteMessage
    \/ ChunkConsume

SpecChunk == InitChunk /\ [][NextChunk]_vars

\* the value of a hexadecimal digit, -1 for any other character
HexDigitValue(ch) ==
    CASE ch \in {"0", "1", "2", "3", "4", "5", "6", "7", "8", "9"} ->
           (CHOOSE d \in 0 .. 9 : HexDigits[d + 1] = ch)
      [] ch \in {"A", "B", "C", "D", "E", "F"} ->
           (CHOOSE d \in 10 .. 15 : HexDigits[d + 1] = ch)
      [] ch \in {"a", "b", "c", "d", "e", "f"} ->
           (CHOOSE d \in 10 .. 15 : <<"a", "b", "c", "d", "e", "f">>[d - 9] = ch)
      [] OTHER -> -1

\* the size field of a line: what comes before the extension
SizeField(line) ==
    IF \E i \in 1 .. Len(line) : line[i] = ";"
    THEN SubSeq(line, 1, (CHOOSE i \in 1 .. Len(line) :
                             line[i] = ";" /\ \A j \in 1 .. i - 1 : line[j] # ";") - 1)
    ELSE line

IsHexField(field) == \A i \in 1 .. Len(field) : HexDigitValue(field[i]) >= 0

RECURSIVE Significant(_)
\* a digit string without its leading zeros
Significant(field) ==
    IF field # <<>> /\ Head(field) = "0" THEN Significant(Tail(field)) ELSE field

\* the value of the field does not fit 64 bits
FieldOverflows(field) == Len(Significant(field)) > 16

RECURSIVE HexValue(_)
\* the hexadecimal value of a digit string
HexValue(field) ==
    IF field = <<>> THEN 0
    ELSE HexValue(SubSeq(field, 1, Len(field) - 1)) * 16 + HexDigitValue(field[Len(field)])

\* the next call gives the client that awaits its response the head of a
\* chunked response and this size line, and no callback fails
LineArrives(line) ==
    /\ conn.client /\ conn.mode = "h1" /\ conn.state = "H1_HEAD" /\ conn.buffer = <<>>
    /\ HasStream(conn, 1)
    /\ call'.op = "consume" /\ call'.fail = "none"
    /\ call'.data = <<ChunkedHead(200)>> \o Octets(line) \o CRLF

\* C34: in state H1_CHUNK the length taken from a complete chunk-size line is
\* the hexadecimal value of its digits (0-9, and a-f / A-F worth 10 to 15);
\* 0 leads to H1_TRAILERS and N > 0 to H1_CHUNK_BODY with N octets expected; a
\* size field with a character that is not a hex digit, or whose value
\* overflows, makes consume return PROTOCOL.
C34_ChunkSize ==
    [][\A line \in ChunkLines :
          LineArrives(line) =>
             LET field == SizeField(line)
             IN  IF ~IsHexField(field) \/ FieldOverflows(field)
                 THEN ret'.code = "PROTOCOL"
                 ELSE /\ ret'.code = "OK"
                      /\ IF HexValue(field) = 0
                         THEN conn'.state = "H1_TRAILERS"
                         ELSE /\ conn'.state = "H1_CHUNK_BODY"
                              /\ conn'.remaining_h1_payload = HexValue(field)]_vars

\* the same for the size fields written with the digits 0 to 9 only
C34_DecimalDigits ==
    [][\A line \in ChunkLines :
          (LineArrives(line) /\
           \A i \in 1 .. Len(SizeField(line)) : HexDigitValue(SizeField(line)[i]) \in 0 .. 9 /\
           Len(SizeField(line)) <= 16)
          => /\ ret'.code = "OK"
             /\ IF HexValue(SizeField(line)) = 0
                THEN conn'.state = "H1_TRAILERS"
                ELSE /\ conn'.state = "H1_CHUNK_BODY"
                     /\ conn'.remaining_h1_payload = HexValue(SizeField(line))]_vars

\* the line "1f" was taken as a chunk of 16 + 5 octets
C34_Witness ==
    /\ call.op = "consume" /\ call.fail = "none" /\ ret.code = "OK"
    /\ call.data = <<ChunkedHead(200)>> \o Octets(<<"1", "f">>) \o CRLF
    /\ conn.state = "H1_CHUNK_BODY" /\ conn.remaining_h1_payload = 21

\* the line "g" was taken as a chunk of 2^64 - 1 octets
C34_NotHexReached ==
    /\ call.op = "consume" /\ call.fail = "none" /\ ret.code = "OK"
    /\ call.data = <<ChunkedHead(200)>> \o Octets(<<"g">>) \o CRLF
    /\ conn.state = "H1_CHUNK_BODY" /\ conn.remaining_h1_payload = 0 - 1

\* a size of 0x19 followed by 15 zeros, which does not fit 64 bits, was accepted
C34_OverflowReached ==
    /\ call.op = "consume" /\ call.fail = "none" /\ ret.code = "OK"
    /\ call.data = <<ChunkedHead(200)>> \o Octets(<<"1", "9">> \o [i \in 1 .. 15 |-> "0"]) \o CRLF
    /\ conn.state = "H1_CHUNK_BODY" /\ conn.remaining_h1_payload = HugeLength

\* a size of 1 followed by 16 zeros was refused
C34_OverflowRefusedReached ==
    /\ call.op = "consume" /\ call.fail = "none" /\ ret.code = "PROTOCOL"
    /\ call.data = <<ChunkedHead(200)>> \o Octets(<<"1">> \o [i \in 1 .. 16 |-> "0"]) \o CRLF

----------------------------------------------------------------------------
(* Tunnels: a client in h1 mode writes a request and is given a 101         *)
(* response, or another one, and the octets that follow it.                 *)

MaxTunnelCalls == 5

TunnelHead(code, hdr) == H1Head(code, "", "", hdr)

TunnelHeads ==
    {TunnelHead(101, <<Hdr("upgrade", "x")>>),
     TunnelHead(101, <<Hdr("content-length", "3")>>),
     TunnelHead(101, <<Hdr("transfer-encoding", "chunked")>>),
     TunnelHead(200, <<Hdr("content-length", "3")>>)}

TunnelOctets ==
    {<<Octet("a")>>, <<Octet("a"), Octet("b"), Octet("c")>>,
     <<Octet("0")>> \o CRLF \o CRLF}

TunnelInputs(c) ==
    IF c.state = "H1_HEAD" /\ c.buffer = <<>>
    THEN {<<h>> : h \in TunnelHeads} \cup {<<h>> \o o : h \in TunnelHeads, o \in TunnelOctets}
    ELSE TunnelOctets

InitTunnel ==
    /\ conn = InitConnection(TRUE)
    /\ cbs = <<>>
    /\ out = <<>>
    /\ ret = [code |-> "OK", n |-> 0]
    /\ call = [op |-> "init"]
    /\ hist = [calls |-> 0, credit |-> CNO_SETTINGS_STANDARD[INITIAL_WINDOW_SIZE],
               begun |-> FALSE, started |-> {}, headed |-> {}, tailed |-> {},
               ended |-> {}]

TunnelReady ==
    /\ hist.calls < MaxTunnelCalls
    /\ ret.code \in {"OK", "CALLBACK"}
    /\ call.op = "write_message" => ret.code = "OK"

TunnelBegin == TunnelReady /\ call.op = "init" /\ BeginAs({"h1"})

\* the client writes its request on stream 1
TunnelWriteMessage ==
    /\ TunnelReady /\ call.op = "begin" /\ ret.code = "OK"
    /\ WriteMessageOf({1}, Messages(conn), BOOLEAN)

TunnelConsume ==
    /\ TunnelReady /\ call.op \in {"write_message", "consume"}
    /\ ConsumeOf(TunnelInputs(conn))

NextTunnel ==
    \/ TunnelBegin
    \/ TunnelWriteMessage
    \/ TunnelConsume

SpecTunnel == InitTunnel /\ [][NextTunnel]_vars

\* the client awaits the response to its request on stream 1 and the next
\* call gives it a 101 response head, followed by n octets
TunnelOpens(n) ==
    /\ conn.client /\ conn.mode = "h1" /\ conn.state = "H1_HEAD" /\ conn.buffer = <<>>
    /\ HasStream(conn, 1) /\ cno_stream_find(conn, 1).r_state = "HEADERS"
    /\ call'.op = "consume" /\ call'.fail = "none"
    /\ Len(call'.data) = n + 1
    /\ call'.data[1].k = "h1head" /\ call'.data[1].h1.code = 101

\* the request awaiting its response was not a HEAD
NotHead == ~cno_stream_find(conn, 1).reading_head_response

\* the octets of this call went to on_message_data of stream 1, those of
\* data from position from on
DeliveredFrom(from) ==
    /\ DataGiven(cbs') = [i \in 1 .. Len(call'.data) - from + 1 |-> call'.data[from + i - 1].ch]
    /\ \A i \in 1 .. Len(cbs') : cbs'[i].cb = "on_message_data" => cbs'[i].id = 1

\* a tunnel is open (no other body of these exchanges has a length of 2^63 or
\* more) and the next call gives it octets
TunnelCarries ==
    /\ conn.client /\ conn.mode = "h1" /\ conn.state = "H1_BODY" /\ conn.buffer = <<>>
    /\ conn.remaining_h1_payload < 0
    /\ call'.op = "consume"

\* C35: after a 101 response head remaining_h1_payload holds -2 and keeps that
\* value while body octets are consumed; every later inbound octet goes to
\* on_message_data of the same stream and the state never leaves H1_BODY.
C35_Tunnel ==
    [][/\ \A n \in 0 .. 3 :
             TunnelOpens(n) =>
                /\ conn'.state = "H1_BODY"
                /\ conn'.remaining_h1_payload = 0 - 2
                /\ DeliveredFrom(2)
       /\ TunnelCarries =>
             /\ conn'.state = "H1_BODY"
             /\ conn'.remaining_h1_payload = 0 - 2
             /\ DeliveredFrom(1)]_vars

\* C35 as amended: after a 101 response head to a request that was not HEAD,
\* remaining_h1_payload is -2 less the number of body octets consumed since;
\* every later inbound octet goes to on_message_data of the same stream and
\* the state never leaves H1_BODY.
C35_TunnelCounted ==
    [][/\ \A n \in 0 .. 3 :
             (TunnelOpens(n) /\ NotHead) =>
                /\ conn'.state = "H1_BODY"
                /\ conn'.remaining_h1_payload = 0 - 2 - n
                /\ DeliveredFrom(2)
       /\ TunnelCarries =>
             /\ conn'.state = "H1_BODY"
             /\ conn'.remaining_h1_payload = conn.remaining_h1_payload - Len(call'.data)
             /\ conn'.remaining_h1_payload < 0 - 2
             /\ DeliveredFrom(1)]_vars

\* a 101 response to a HEAD request opens no tunnel: the message ends at once
C35_HeadRequest ==
    [][(TunnelOpens(0) /\ ~NotHead)
       => /\ conn'.state = "H1_HEAD" /\ conn'.remaining_h1_payload = 0
          /\ \E i \in 1 .. Len(cbs') : cbs'[i].cb = "on_message_tail" /\ cbs'[i].id = 1]_vars

\* a tunnel that was opened two calls ago has carried four octets
C35_Witness ==
    /\ conn.client /\ conn.state = "H1_BODY" /\ conn.remaining_h1_payload = 0 - 6
    /\ call.op = "consume" /\ call.fail = "none" /\ ret.code = "OK"
    /\ call.data = <<Octet("a"), Octet("b"), Octet("c")>>
    /\ Len(cbs) = 1 /\ cbs[1].cb = "on_message_data" /\ cbs[1].id = 1
    /\ hist.calls = MaxTunnelCalls

\* a tunnel has just been opened by a head that no octet followed
C35_OpenedReached ==
    /\ conn.client /\ conn.state = "H1_BODY" /\ conn.remaining_h1_payload = 0 - 2
    /\ call.op = "consume" /\ call.fail = "none" /\ ret.code = "OK"
    /\ call.data = <<TunnelHead(101, <<Hdr("content-length", "3")>>)>>

----------------------------------------------------------------------------
(* The end of a stream.                                                     *)

\* the callbacks that name a stream and may not follow its on_stream_end
AfterEndNames(e) ==
    \/ e.cb \in {"on_message_head", "on_message_data", "on_message_tail", "on_stream_end"}
    \/ e.cb = "on_flow_increase" /\ e.id # 0

\* the next call handles a HEADERS frame that names its own stream as the
\* stream it depends on: one it is given or one left in the buffer
SelfDependentHandled ==
    \/ call'.op = "consume" /\ \E i \in 1 .. Len(call'.data) : SelfDependent(call'.data[i])
    \/ \E i \in 1 .. Len(conn.buffer) : SelfDependent(conn.buffer[i].u)

\* C36: on_stream_end(id) is fired at most once for an id, and once it has
\* fired no on_message_head, on_message_data, on_message_tail,
\* on_flow_increase or on_stream_end naming that id is fired, whatever the
\* inbound frames, writer calls and eof.
C36_EndFinal ==
    \A i \in 1 .. Len(cbs) :
        AfterEndNames(cbs[i]) => ~FiredBefore("on_stream_end", hist.ended, cbs[i].id, i)

\* the same of the calls that handle no self-dependent HEADERS frame
C36_EndFinalOtherwise ==
    [][~SelfDependentHandled => C36_EndFinal']_vars

\* eof has ended stream 1
C36_EndedReached ==
    /\ \E i \in 1 .. Len(cbs) : cbs[i].cb = "on_stream_end" /\ cbs[i].id = 1
    /\ call.op = "eof"

----------------------------------------------------------------------------
(* A consume call repeated after a failure.                                 *)

\* the last consume call failed in the callback cb while it handled the frame
\* of this type for stream s, which is the one at the head of the buffer, and
\* the next call is a consume call
AbortedOn(type, s, cb) ==
    /\ conn.mode = "h2" /\ conn.state = "H2_FRAME"
    /\ call.op = "consume" /\ ret.code = "CALLBACK" /\ call.fail = cb
    /\ cbs # <<>> /\ cbs[Len(cbs)].cb = cb /\ cbs[Len(cbs)].id = s
    /\ conn.buffer # <<>>
    /\ Head(conn.buffer).from = 0
    /\ Head(conn.buffer).u.k = "frame"
    /\ Head(conn.buffer).u.type = type /\ Head(conn.buffer).u.stream = s
    /\ call'.op = "consume"

\* no frame given to the next call is a WINDOW_UPDATE frame
NoOtherUpdate ==
    \A i \in 1 .. Len(call'.data) :
        ~(call'.data[i].k = "frame" /\ call'.data[i].type = "WINDOW_UPDATE")

\* a WINDOW_UPDATE frame whose on_flow_increase failed leaves the window it
\* has increased alone when consume is called again
WindowOnce ==
    \A s \in 1 .. MaxStreamId :
        (AbortedOn("WINDOW_UPDATE", s, "on_flow_increase") /\ NoOtherUpdate /\ HasStream(conn', s))
        => cno_stream_find(conn', s).window_send = cno_stream_find(conn, s).window_send

\* a HEADERS frame that has opened stream s, and whose on_stream_start or
\* on_message_head failed, opens no stream when consume is called again
HeadersOnce ==
    \A s \in 1 .. MaxStreamId :
        (\/ AbortedOn("HEADERS", s, "on_stream_start")
         \/ AbortedOn("HEADERS", s, "on_message_head") /\ s \in CallbackIds(cbs, "on_stream_start"))
        => /\ s \notin CallbackIds(cbs', "on_stream_start")
           /\ conn'.stream_count[CNO_REMOTE] <= conn.stream_count[CNO_REMOTE] + 1

\* C37: when consume has returned an error while it handled an inbound h2
\* frame, a later consume call does not apply the effects of that frame a
\* second time: one WINDOW_UPDATE frame increases a send window at most once
\* and one HEADERS frame opens at most one stream.
C37_NoDoubleApplication == [][WindowOnce /\ HeadersOnce]_vars

\* what the code does with the WINDOW_UPDATE frame: the next consume call
\* handles it again and adds its increment a second time
C37_WindowTwice ==
    [][\A s \in 1 .. MaxStreamId :
          (AbortedOn("WINDOW_UPDATE", s, "on_flow_increase") /\ NoOtherUpdate
           /\ HasStream(conn', s) /\ call'.fail = "none")
          => /\ cno_stream_find(conn', s).window_send
                  = wAdd(cno_stream_find(conn, s).window_send, Head(conn.buffer).u.val)
             /\ s \in CallbackIds(cbs', "on_flow_increase")]_vars

\* the part of the claim about HEADERS frames
C37_HeadersOnce == [][HeadersOnce]_vars

\* the WINDOW_UPDATE frame for stream 1 has been handled again
C37_WindowReached ==
    /\ call.op = "consume" /\ call.fail = "none" /\ ret.code = "OK"
    /\ HasStream(conn, 1) /\ cno_stream_find(conn, 1).window_send = Wide(2)
    /\ CallbackIds(cbs, "on_flow_increase") = {1}

\* consume is called again after on_message_head of a HEADERS frame failed
C37_HeadersReached ==
    /\ call.op = "consume" /\ ret.code = "CALLBACK" /\ call.fail = "on_message_head"
    /\ conn.buffer # <<>> /\ Head(conn.buffer).u.type = "HEADERS"
    /\ 1 \in CallbackIds(cbs, "on_stream_start")
    /\ hist.calls < MaxCalls

----------------------------------------------------------------------------
(* The stream table and its counters.                                       *)

\* the streams of the table, bucket after bucket
StreamList(c) == Flat([b \in 1 .. CNO_STREAM_BUCKETS |-> c.streams[b - 1]])

\* the number of streams of the table on the side local (1 = CNO_LOCAL)
CountOf(c, local) ==
    Cardinality({i \in 1 .. Len(StreamList(c)) :
                    cno_stream_is_local(c, StreamList(c)[i].id) = local})

\* C38: stream_count[LOCAL] is the number of streams in the table with local
\* parity and stream_count[REMOTE] the number with remote parity, also after
\* a failed on_stream_start, after resets and after eof; no stream id occurs
\* twice in the table.
C38_StreamCount ==
    /\ conn.stream_count[CNO_LOCAL] = CountOf(conn, CNO_LOCAL)
    /\ conn.stream_count[CNO_REMOTE] = CountOf(conn, CNO_REMOTE)
    /\ \A i, j \in 1 .. Len(StreamList(conn)) :
          StreamList(conn)[i].id = StreamList(conn)[j].id => i = j

\* on_stream_start of a stream of the peer has failed and a stream is left
C38_FailedStartReached ==
    /\ call.op = "consume" /\ call.fail = "on_stream_start" /\ ret.code = "CALLBACK"
    /\ cbs # <<>> /\ cbs[Len(cbs)].cb = "on_stream_start" /\ cbs[Len(cbs)].id = 3
    /\ HasStream(conn, 1) /\ ~HasStream(conn, 3)
    /\ conn.stream_count[CNO_REMOTE] = 1

\* eof has ended the last stream of the table
C38_Witness ==
    /\ call.op = "eof" /\ ret.code = "OK"
    /\ CallbackIds(cbs, "on_stream_end") # {}
    /\ StreamList(conn) = <<>>
    /\ conn.stream_count[CNO_LOCAL] = 0 /\ conn.stream_count[CNO_REMOTE] = 0

\* a reset has ended one of two streams
C38_ResetReached ==
    /\ call.op = "write_reset" /\ ret.code = "OK"
    /\ CallbackIds(cbs, "on_stream_end") # {}
    /\ Len(StreamList(conn)) = 1

----------------------------------------------------------------------------
(* A final write the windows allow only a part of.                          *)

\* what the windows allow to be sent on stream s: the smaller of the stream's
\* window and the connection's, and nothing when that is negative
Allowed(c, s) ==
    LET sw == wAdd(cno_stream_find(c, s).window_send, c.settings[CNO_REMOTE][INITIAL_WINDOW_SIZE])
        least == IF wLt(c.window_send, sw) THEN c.window_send ELSE sw
    IN  IF wLt(least, W0) THEN 0 ELSE Narrow(least)

\* the next call is write_data with final set on stream s of an h2
\* connection, whose write half is in DATA, and asks for more octets than the
\* windows allow; no callback fails
PartialFinal(s) ==
    /\ conn.mode = "h2" /\ conn.state # "CLOSED"
    /\ HasStream(conn, s) /\ cno_stream_find(conn, s).w_state = "DATA"
    /\ call'.op = "write_data" /\ call'.stream = s /\ call'.final /\ call'.fail = "none"
    /\ Allowed(conn, s) < call'.length

\* C39: when h2 write_data is called with final set and the windows allow
\* fewer octets than requested, no DATA frame written carries END_STREAM, the
\* stream's write half stays in DATA (the stream is not closed or reset) and
\* the count returned is the smaller number that was accepted.
C39_PartialFinal ==
    [][\A s \in {1, 3} :
          PartialFinal(s) =>
             /\ ret'.code = "OK" /\ ret'.n = Allowed(conn, s)
             /\ \A i \in 1 .. Len(out') :
                   out'[i].type = "DATA" /\ out'[i].stream = s
                   /\ CNO_FLAG_END_STREAM \notin out'[i].flags
             /\ DataOctets(out') = Allowed(conn, s)
             /\ HasStream(conn', s) /\ cno_stream_find(conn', s).w_state = "DATA"
             /\ cno_stream_find(conn', s).r_state = cno_stream_find(conn, s).r_state
             /\ cbs' = <<>>]_vars

\* a final write of 70000 octets was cut to the 65535 of the first windows
C39_Witness ==
    /\ call.op = "write_data" /\ call.final /\ call.length = 70000 /\ call.fail = "none"
    /\ ret.code = "OK" /\ ret.n = 65535
    /\ DataOctets(out) = 65535
    /\ HasStream(conn, call.stream) /\ cno_stream_find(conn, call.stream).w_state = "DATA"

\* a final write found the windows empty and wrote nothing
C39_NothingReached ==
    /\ call.op = "write_data" /\ call.final /\ call.length = 3 /\ call.fail = "none"
    /\ ret.code = "OK" /\ ret.n = 0 /\ out = <<>>
    /\ HasStream(conn, call.stream) /\ cno_stream_find(conn, call.stream).w_state = "DATA"

----------------------------------------------------------------------------
(* The size of the frames written.                                          *)

\* the peer's max_frame_size as the connection holds it
RemoteLimit(c) == Narrow(c.settings[CNO_REMOTE][MAX_FRAME_SIZE])

\* the values SETTINGS_MAX_FRAME_SIZE may take: 2^14 to 2^24 - 1
ValidLimit(c) == RemoteLimit(c) >= 16384 /\ RemoteLimit(c) <= 16777215

\* what was written is an HTTP/2 frame, not the preface or HTTP/1 text
IsFrameWritten(o) == \E t \in 1 .. Len(KnownFrameTypes) : KnownFrameTypes[t] = o.type

\* the smaller of the peer's limit before and after the call (a consume call can
\* change it; no other call does)
LeastLimit == IF RemoteLimit(conn') < RemoteLimit(conn) THEN RemoteLimit(conn')
              ELSE RemoteLimit(conn)

\* C40: every HTTP/2 frame written through on_writev, by a writer call or as
\* an automatic reply, has a payload of at most REMOTE.max_frame_size octets
\* at the moment it is written, when REMOTE.max_frame_size is within its
\* valid range.
C40_FrameSize ==
    [][(ValidLimit(conn) /\ ValidLimit(conn'))
       => /\ call'.op # "consume" => RemoteLimit(conn') = RemoteLimit(conn)
          /\ \A i \in 1 .. Len(out') :
                IsFrameWritten(out'[i]) => out'[i].size <= LeastLimit]_vars

\* a writer call has cut a payload bigger than the peer's limit into frames,
\* the first of which is as big as the limit
C40_Witness ==
    /\ call.op \in {"write_data", "write_message", "write_frame", "write_push"}
    /\ ret.code = "OK" /\ conn.mode = "h2" /\ ValidLimit(conn)
    /\ Len(out) >= 2
    /\ IsFrameWritten(out[1]) /\ out[1].size = RemoteLimit(conn)
    /\ \A i \in 1 .. Len(out) : IsFrameWritten(out[i]) /\ out[i].size <= RemoteLimit(conn)

\* a consume call has written frames of its own
C40_ReplyReached ==
    /\ call.op = "consume" /\ ret.code = "OK" /\ conn.mode = "h2"
    /\ \E i \in 1 .. Len(out) : IsFrameWritten(out[i]) /\ out[i].type \in {"PING", "RST_STREAM"}

====
